---------------------------- MODULE Spec2Model ----------------------------
(***************************************************************************)
(* A model of the rexif crate: the container sniffer (image.rs), the byte  *)
(* readers (lowlevel.rs), the directory entry model (types_impl.rs) and    *)
(* the metadata serializer (types.rs), with the directory parser that the  *)
(* specification describes.                                                *)
(*                                                                         *)
(* Bytes are naturals in 0..255, byte slices are sequences (Rust's index i *)
(* is the TLA+ index i + 1).  A Rust panic (an index or a slice range out  *)
(* of bounds, an unwrap of None, unimplemented!) is an outcome of its own: *)
(* the result kind "Panic".                                                *)
(***************************************************************************)
EXTENDS Integers, Sequences, FiniteSets, TLC

VARIABLES
    \* --- container sniffer (image.rs)
    contents,   \* the byte buffer handed to detect_type / find_embedded_tiff_in_jpeg
    segs,       \* how the buffer was put together: the JPEG segments after the SOI
    ipc,        \* position of the sniffer: "detect", "scan", "done", or "off"
    ftype,      \* what detect_type returned ("none" before the call)
    offset,     \* find_embedded_tiff_in_jpeg: the local `offset`
    iters,      \* find_embedded_tiff_in_jpeg: loop iterations that did not return
    jres,       \* find_embedded_tiff_in_jpeg: the returned Result
    \* --- byte readers (lowlevel.rs)
    raw,        \* the slice handed to a reader
    lle,        \* the `le` flag handed to a reader
    usize_bits, \* the width of usize on the target the crate is built for
    lcall,      \* the reader called and its `count` argument
    lres,       \* what the reader returned
    \* --- serializer (types.rs) and directory parser
    exif_data,  \* the ExifData handed to serialize
    spc,        \* position of the round trip: "serialize", "parse", "reserialize", "done", or "off"
    sres,       \* what serialize returned for exif_data
    pres,       \* what the parser made of the serialized bytes
    rres,       \* what serialize returned for the parsed set
    \* --- directory entry model (types_impl.rs)
    ifd_entry,       \* the IfdEntry a method is called on
    econtents,       \* the buffer handed to copy_data
    overflow_checks, \* whether the build panics on integer overflow (debug profile)
    ecall,           \* the method called ("none" before the call)
    eres,            \* what the call returned, and the entry afterwards
    \* --- equality (types.rs, PartialEq)
    lhs,        \* the ExifEntry `self` of a comparison
    rhs,        \* the ExifEntry `other`
    eqcall,     \* the comparison made ("none" before it)
    eqres       \* what == returned

imgvars == <<contents, segs, ipc, ftype, offset, iters, jres>>
lowvars == <<raw, lle, usize_bits, lcall, lres>>
servars == <<exif_data, spc, sres, pres, rres>>
entvars == <<ifd_entry, econtents, overflow_checks, ecall, eres>>
eqvars == <<lhs, rhs, eqcall, eqres>>
vars == <<imgvars, lowvars, servars, entvars, eqvars>>

(***************************************************************************)
(* Bounds of the model.                                                    *)
(***************************************************************************)
\* JPEG segments after the SOI marker in a generated buffer.
MaxSegs == 2
\* Bytes cut off the end of a generated JPEG buffer (truncation).
MaxCut == 4
\* Length of the longest slice handed to a byte reader.
MaxRaw == 17
\* Largest small element count handed to an array reader (the counts near
\* 2^32 are handed to it besides).
MaxCount == 2
\* Entries of a generated ExifData.
MaxEntries == 3
\* Largest small element count of an IfdEntry a method is called on (the
\* counts near 2^29 .. 2^32 are used besides).
MaxSmallCount == 5
\* Fields in which the two entries of a comparison differ.
MaxDiffs == 3

(***************************************************************************)
(* Slices and indexing, with Rust's bounds checks.                         *)
(***************************************************************************)
\* The value of an out-of-bounds index expression: the access panicked.
OOB == -1
\* The value of an out-of-bounds slice expression: the access panicked.
OOBSlice == <<-1>>

\* contents[i]
Idx(s, i) == IF i >= 0 /\ i < Len(s) THEN s[i + 1] ELSE OOB

\* &contents[a..b]
Slice(s, a, b) == IF a >= 0 /\ a <= b /\ b <= Len(s) THEN SubSeq(s, a + 1, b) ELSE OOBSlice

\* contents.starts_with(p)
StartsWith(s, p) == Len(s) >= Len(p) /\ SubSeq(s, 1, Len(p)) = p

RECURSIVE Concat(_)
Concat(ss) == IF ss = <<>> THEN <<>> ELSE Head(ss) \o Concat(Tail(ss))

(***************************************************************************)
(* image.rs: detect_type                                                   *)
(***************************************************************************)
JpegPrefix == <<255, 216, 255>>
Jfif0 == <<74, 70, 73, 70, 0>>
Exif0 == <<69, 120, 105, 102, 0>>
TiffLE == <<73, 73, 42, 0>>
TiffBE == <<77, 77, 0, 42>>

\* `if contents.len() < 11 { return FileType::Unknown; }`
DetectTooShort_OffByOne(c) == Len(c) < 10
DetectTooShort(c) == Len(c) < 11

\* `contents[0..3] == [0xff, 0xd8, 0xff] && &contents[6..11] == tag`, with && short-circuit:
\* "yes", "no", or "panic" when a slice that is evaluated is out of range.
JpegSigTest(c, tag) ==
    LET a == Slice(c, 0, 3) IN
    IF a = OOBSlice THEN "panic"
    ELSE IF a # JpegPrefix THEN "no"
    ELSE LET b == Slice(c, 6, 11) IN
         IF b = OOBSlice THEN "panic"
         ELSE IF b = tag THEN "yes" ELSE "no"

TiffSigTest_LEOnly(c) == StartsWith(c, TiffLE)
TiffSigTest(c) == StartsWith(c, TiffLE) \/ StartsWith(c, TiffBE)

detect_type(c) ==
    IF DetectTooShort(c) THEN "Unknown"
    ELSE LET j1 == JpegSigTest(c, Jfif0) IN
         IF j1 = "panic" THEN "Panic"
         ELSE IF j1 = "yes" THEN "JPEG"
         ELSE LET j2 == JpegSigTest(c, Exif0) IN
              IF j2 = "panic" THEN "Panic"
              ELSE IF j2 = "yes" THEN "JPEG"
              ELSE IF TiffSigTest(c) THEN "TIFF"
              ELSE "Unknown"

(***************************************************************************)
(* image.rs: find_embedded_tiff_in_jpeg                                    *)
(***************************************************************************)
ExifTag6 == <<69, 120, 105, 102, 0, 0>>

JErr(m) == [kind |-> "Err", err |-> "JpegWithoutExif", msg |-> m, off |-> 0, len |-> 0]
JOk(o, n) == [kind |-> "Ok", err |-> "", msg |-> "", off |-> o, len |-> n]
JPanic == [kind |-> "Panic", err |-> "", msg |-> "", off |-> 0, len |-> 0]
JNone == [kind |-> "None", err |-> "", msg |-> "", off |-> 0, len |-> 0]
\* the loop goes on with `offset` = o
JNext(o) == [kind |-> "Next", err |-> "", msg |-> "", off |-> o, len |-> 0]

\* `if contents.len() < (offset + 4)`
HeaderTruncated_NoCheck(c, off) == FALSE
HeaderTruncated(c, off) == Len(c) < off + 4

\* `if contents.len() < (offset + size)`, offset already past the marker
BodyTruncated_NoCheck(c, off, size) == FALSE
BodyTruncated(c, off, size) == Len(c) < off + size

\* `if size < 2`
SizeTooSmall_Never(size) == FALSE
SizeTooSmall(size) == size < 2

\* `contents[offset + 2..offset + 8] != [b'E', b'x', b'i', b'f', 0, 0]`, negated
PreambleMatches_Any(t) == TRUE
PreambleMatches(t) == t = ExifTag6

\* `return Err(ExifError::JpegWithoutExif("EXIF preamble unrecognized".into()))`
PreambleMismatch_Skip(off, size) == JNext(off + size)
PreambleMismatch(off, size) == JErr("EXIF preamble unrecognized")

\* `return Ok((offset + 8, size - 8))`
App1Payload_KeepTag(off, size) == JOk(off + 2, size - 2)
App1Payload(off, size) == JOk(off + 8, size - 8)

\* `if marker == 0xffda { return Err(..) }`
IsLastMarker_Never(marker) == FALSE
IsLastMarker(marker) == marker = 65498

\* One pass through the body of `while offset < contents.len()`, entered with
\* `offset` = off: the value returned, or JNext with the new offset.
ScanBody(c, off) ==
    IF HeaderTruncated(c, off) THEN JErr("JPEG truncated in marker header")
    ELSE LET m1 == Idx(c, off)
             m2 == Idx(c, off + 1)
         IN
         IF m1 = OOB \/ m2 = OOB THEN JPanic
         ELSE LET marker == m1 * 256 + m2
                  o2 == off + 2
                  s1 == Idx(c, o2)
                  s2 == Idx(c, o2 + 1)
              IN
              IF marker < 65280 THEN JErr("Invalid marker")
              ELSE IF s1 = OOB \/ s2 = OOB THEN JPanic
              ELSE LET size == s1 * 256 + s2 IN
                   IF SizeTooSmall(size) THEN JErr("JPEG marker size must be at least 2")
                   ELSE IF BodyTruncated(c, o2, size) THEN JErr("JPEG truncated in marker body")
                   ELSE IF marker = 65505
                        THEN IF size < 8 THEN JErr("EXIF preamble truncated")
                             ELSE LET t == Slice(c, o2 + 2, o2 + 8) IN
                                  IF t = OOBSlice THEN JPanic
                                  ELSE IF ~PreambleMatches(t) THEN PreambleMismatch(o2, size)
                                  ELSE App1Payload(o2, size)
                        ELSE IF IsLastMarker(marker) THEN JErr("Last mark found and no EXIF")
                        ELSE JNext(o2 + size)

(***************************************************************************)
(* The buffers the sniffer is run on.                                      *)
(***************************************************************************)
\* marker codes: APP0, APP1, SOS, and a code below 0xFF00
Markers == {<<255, 224>>, <<255, 225>>, <<255, 218>>, <<0, 225>>}

\* (declared length, body) of a segment: the declared length counts its own
\* two bytes, so the first five are well-formed; the last two declare one
\* byte (less than the length field itself) and two bytes more than they hold.
SegShapes ==
    { [size |-> 9, body |-> ExifTag6 \o <<42>>],
      [size |-> 8, body |-> ExifTag6],
      [size |-> 8, body |-> <<69, 120, 105, 102, 0, 1>>],
      [size |-> 2, body |-> <<>>],
      [size |-> 3, body |-> <<7>>],
      [size |-> 1, body |-> <<>>],
      [size |-> 4, body |-> <<>>] }

Segments == { [marker |-> m, size |-> sh.size, body |-> sh.body] : m \in Markers, sh \in SegShapes }

SegBytes(sg) == sg.marker \o <<sg.size \div 256, sg.size % 256>> \o sg.body

RECURSIVE SegsBytes(_)
SegsBytes(ss) == IF ss = <<>> THEN <<>> ELSE SegBytes(Head(ss)) \o SegsBytes(Tail(ss))

SOI == <<255, 216>>
JpegBytes(ss) == SOI \o SegsBytes(ss)

SegSeqs == UNION { [1..n -> Segments] : n \in 0..MaxSegs }

\* Buffers for detect_type: a 3-byte head, a fourth byte, two more bytes, a
\* 5-byte tag at offset 6 and an optional trailing byte; every prefix of them.
DetectHeads == { JpegPrefix, <<255, 216, 0>>, <<73, 73, 42>>, <<77, 77, 0>>, <<73, 77, 42>> }
DetectFourth == { 0, 42, 225 }
DetectTags == { Jfif0, Exif0, <<69, 120, 105, 102, 1>>, <<74, 70, 73, 71, 0>> }
DetectFull == { h \o <<f>> \o <<0, 16>> \o t \o z :
                  h \in DetectHeads, f \in DetectFourth, t \in DetectTags, z \in {<<>>, <<0>>} }
DetectBufs == UNION { { SubSeq(b, 1, n) : n \in 0..Len(b) } : b \in DetectFull }

(***************************************************************************)
(* lowlevel.rs: the byte readers                                           *)
(***************************************************************************)
\* Option<T>, and the panic of an unwrap or of a slice index.
Some(v) == [kind |-> "Some", val |-> v]
None == [kind |-> "None", val |-> 0]
Panic == [kind |-> "Panic", val |-> 0]

\* raw.get(..n): the first n bytes, or None when the slice is shorter
GetPrefix_OffByOne(s, n) == IF n <= Len(s) + 1 THEN Some(SubSeq(s, 1, n)) ELSE None
GetPrefix(s, n) == IF n <= Len(s) THEN Some(SubSeq(s, 1, n)) ELSE None

\* A 32-bit quantity (a u32 value, a count, a usize product) is kept as two
\* limbs, hi * 65536 + lo with 0 <= lo < 65536: the model checker's integers
\* stop at 2^31 - 1.  A u16, an i16 and an i32 are integers.
Wide(h, l) == [hi |-> h, lo |-> l]

\* uN::from_le_bytes, uN::from_be_bytes: the bytes, most significant first
RECURSIVE Reverse(_)
Reverse(b) == IF b = <<>> THEN <<>> ELSE Reverse(Tail(b)) \o <<Head(b)>>

\* `if le { from_le_bytes(bytes) } else { from_be_bytes(bytes) }`
MsbFirst_Swapped(le, b) == IF le THEN b ELSE Reverse(b)
MsbFirst(le, b) == IF le THEN Reverse(b) ELSE b

\* iN: the same bits read as two's complement
Signed(v, bits) == IF v >= 2 ^ (bits - 1) THEN v - 2 ^ bits ELSE v

U16Of(d) == d[1] * 256 + d[2]
U32Of(d) == Wide(d[1] * 256 + d[2], d[3] * 256 + d[4])
I32Of(d) == Signed(d[1] * 256 + d[2], 16) * 65536 + (d[3] * 256 + d[4])

read_u16(le, r) ==
    LET g == GetPrefix(r, 2) IN
    IF g.kind = "None" THEN None ELSE Some(U16Of(MsbFirst(le, g.val)))

read_i16(le, r) ==
    LET g == GetPrefix(r, 2) IN
    IF g.kind = "None" THEN None ELSE Some(Signed(U16Of(MsbFirst(le, g.val)), 16))

read_u32(le, r) ==
    LET g == GetPrefix(r, 4) IN
    IF g.kind = "None" THEN None ELSE Some(U32Of(MsbFirst(le, g.val)))

read_i32(le, r) ==
    LET g == GetPrefix(r, 4) IN
    IF g.kind = "None" THEN None ELSE Some(I32Of(MsbFirst(le, g.val)))

\* A float is kept as its IEEE bit pattern, the bytes most significant first;
\* read_f32 and read_f64 take no `le` and always use from_le_bytes.
read_f32(r) ==
    LET g == GetPrefix(r, 4) IN
    IF g.kind = "None" THEN None ELSE Some([bits |-> Reverse(g.val)])

read_f64(r) ==
    LET g == GetPrefix(r, 8) IN
    IF g.kind = "None" THEN None ELSE Some([bits |-> Reverse(g.val)])

\* `read_u32(le, &raw[0..4])?` then `read_u32(le, &raw[4..8])?`: the slice
\* expressions are bounds-checked and panic, in this order, before the reader runs.
read_urational(le, r) ==
    LET a == Slice(r, 0, 4) IN
    IF a = OOBSlice THEN Panic
    ELSE LET n == read_u32(le, a) IN
         IF n.kind = "None" THEN None
         ELSE LET b == Slice(r, 4, 8) IN
              IF b = OOBSlice THEN Panic
              ELSE LET d == read_u32(le, b) IN
                   IF d.kind = "None" THEN None
                   ELSE Some([numerator |-> n.val, denominator |-> d.val])

read_irational(le, r) ==
    LET a == Slice(r, 0, 4) IN
    IF a = OOBSlice THEN Panic
    ELSE LET n == read_i32(le, a) IN
         IF n.kind = "None" THEN None
         ELSE LET b == Slice(r, 4, 8) IN
              IF b = OOBSlice THEN Panic
              ELSE LET d == read_i32(le, b) IN
                   IF d.kind = "None" THEN None
                   ELSE Some([numerator |-> n.val, denominator |-> d.val])

\* size * count for size: u8 widened and count: u32 widened, as limbs
MulWide(size, count) ==
    Wide(size * count.hi + (size * count.lo) \div 65536, (size * count.lo) % 65536)

\* size.checked_mul(count) on usize: None on overflow (a u8 times a u32
\* overflows no 64-bit usize)
CheckedMul_Wrapping(size, count, bits) ==
    LET p == MulWide(size, count) IN
    IF bits = 32 THEN Some(Wide(p.hi % 65536, p.lo)) ELSE Some(p)
CheckedMul(size, count, bits) ==
    LET p == MulWide(size, count) IN
    IF bits = 32 /\ p.hi >= 65536 THEN None ELSE Some(p)

\* raw.get(..n) for a usize n kept as limbs
GetPrefixWide(s, n) ==
    IF n.hi < Len(s) \div 65536 \/ (n.hi = Len(s) \div 65536 /\ n.lo <= Len(s) % 65536)
    THEN Some(SubSeq(s, 1, n.hi * 65536 + n.lo))
    ELSE None

\* bytes.chunks_exact(size).map(convert).take(count): the chunks that fit
\* whole, at most count of them
ChunksTake(bytes, size, count) ==
    LET have == Len(bytes) \div size
        n == IF count.hi = 0 /\ count.lo < have THEN count.lo ELSE have
    IN [i \in 1..n |-> SubSeq(bytes, (i - 1) * size + 1, i * size)]

ScalarReaders ==
    { "read_u16", "read_i16", "read_u32", "read_i32", "read_f32", "read_f64",
      "read_urational", "read_irational" }

\* The scalar reader named fn applied to the chunk ch: the body of the
\* closure handed to read_elements, before its unwrap.
Convert(fn, le, ch) ==
    CASE fn = "read_u16" -> read_u16(le, ch)
      [] fn = "read_i16" -> read_i16(le, ch)
      [] fn = "read_u32" -> read_u32(le, ch)
      [] fn = "read_i32" -> read_i32(le, ch)
      [] fn = "read_f32" -> read_f32(ch)
      [] fn = "read_f64" -> read_f64(ch)
      [] fn = "read_urational" -> read_urational(le, ch)
      [] fn = "read_irational" -> read_irational(le, ch)

\* read_elements(size, count, raw, convert) with convert the closure
\* `|ch| fn(le, ch).unwrap()`: a None or a panic of fn is a panic.
\* (try_reserve_exact fails only when the allocator does: not modelled.)
read_elements(size, count, r, bits, fn, le) ==
    LET byte_size == CheckedMul(size, count, bits) IN
    IF byte_size.kind = "None" THEN None
    ELSE LET bytes == GetPrefixWide(r, byte_size.val) IN
         IF bytes.kind = "None" THEN None
         ELSE LET chunks == ChunksTake(bytes.val, size, count)
                  out == [i \in 1..Len(chunks) |-> Convert(fn, le, chunks[i])]
              IN
              IF \E i \in 1..Len(out) : out[i].kind # "Some" THEN Panic
              ELSE Some([i \in 1..Len(out) |-> out[i].val])

\* `raw.get(..count as usize)?.iter().map(|&i| i as i8).collect()`
read_i8_array(count, r) ==
    LET g == GetPrefixWide(r, count) IN
    IF g.kind = "None" THEN None
    ELSE Some([i \in 1..Len(g.val) |-> Signed(g.val[i], 8)])

read_u16_array(le, count, r, bits) == read_elements(2, count, r, bits, "read_u16", le)

read_i16_array(le, count, r, bits) == read_elements(2, count, r, bits, "read_i16", le)

read_u32_array(le, count, r, bits) == read_elements(4, count, r, bits, "read_u32", le)

read_i32_array(le, count, r, bits) == read_elements(4, count, r, bits, "read_i32", le)

\* read_f32_array and read_f64_array take no `le`
read_f32_array(count, r, bits) == read_elements(4, count, r, bits, "read_f32", TRUE)

read_f64_array(count, r, bits) == read_elements(8, count, r, bits, "read_f64", TRUE)

read_urational_array(le, count, r, bits) == read_elements(8, count, r, bits, "read_urational", le)

read_irational_array(le, count, r, bits) == read_elements(8, count, r, bits, "read_irational", le)

\* The reader named fn applied to (le, count, r) on a target with usize of
\* `bits` bits.
CallReader(fn, le, count, r, bits) ==
    CASE fn \in ScalarReaders -> Convert(fn, le, r)
      [] fn = "read_i8_array" -> read_i8_array(count, r)
      [] fn = "read_u16_array" -> read_u16_array(le, count, r, bits)
      [] fn = "read_i16_array" -> read_i16_array(le, count, r, bits)
      [] fn = "read_u32_array" -> read_u32_array(le, count, r, bits)
      [] fn = "read_i32_array" -> read_i32_array(le, count, r, bits)
      [] fn = "read_f32_array" -> read_f32_array(count, r, bits)
      [] fn = "read_f64_array" -> read_f64_array(count, r, bits)
      [] fn = "read_urational_array" -> read_urational_array(le, count, r, bits)
      [] fn = "read_irational_array" -> read_irational_array(le, count, r, bits)

(***************************************************************************)
(* The slices and counts the byte readers are run on.                      *)
(***************************************************************************)
\* Three byte patterns: ascending, descending from 255 (sign bits set), and
\* zeros alternating with 0x80.
RawPatterns ==
    { [i \in 1..MaxRaw |-> i],
      [i \in 1..MaxRaw |-> 256 - i],
      [i \in 1..MaxRaw |-> IF i % 2 = 1 THEN 0 ELSE 128] }

Raws == UNION { { SubSeq(p, 1, n) : n \in 0..MaxRaw } : p \in RawPatterns }

\* count: u32.  The small counts, and 2^29, 2^31 and 2^32 - 1, whose product
\* with an element size of 8, 2 and 1.. passes 2^32.
Counts ==
    { Wide(0, c) : c \in 0..MaxCount } \cup { Wide(8192, 0), Wide(32768, 0), Wide(65535, 65535) }

UsizeWidths == { 32, 64 }

ArrayReaders ==
    { "read_i8_array", "read_u16_array", "read_i16_array", "read_u32_array",
      "read_i32_array", "read_f32_array", "read_f64_array",
      "read_urational_array", "read_irational_array" }

(***************************************************************************)
(* types.rs, types_impl.rs: IfdFormat and IfdEntry                         *)
(*                                                                         *)
(* An IfdEntry is the record                                               *)
(*   [namespace, tag, format, count, data, ifd_data, ext_data, le]         *)
(* with tag a u16, format the name of an IfdFormat variant, count a u32    *)
(* kept as limbs and the three data fields byte sequences.                 *)
(***************************************************************************)
\* enum IfdFormat: the variants in the order of their discriminants 1..12
FormatNames ==
    << "U8", "Ascii", "U16", "U32", "URational", "I8", "Undefined", "I16", "I32",
       "IRational", "F32", "F64" >>

\* `self.format as u16`
FormatCode(f) ==
    IF f = "Unknown" THEN 0 ELSE CHOOSE c \in 1..12 : FormatNames[c] = f

\* IfdFormat::new(code)
IfdFormat_new_NoF64(code) == IF code \in 1..11 THEN FormatNames[code] ELSE "Unknown"
IfdFormat_new(code) == IF code \in 1..12 THEN FormatNames[code] ELSE "Unknown"

\* IfdEntry::size()
size(ifd) ==
    CASE ifd.format \in {"U8", "Ascii", "I8", "Undefined", "Unknown"} -> 1
      [] ifd.format \in {"U16", "I16"} -> 2
      [] ifd.format \in {"U32", "I32", "F32"} -> 4
      [] ifd.format \in {"URational", "IRational", "F64"} -> 8

\* IfdEntry::length(): `(self.size() as usize) * (self.count as usize)`.  The
\* product passes no 64-bit usize; on a 32-bit target it wraps (release
\* profile; with overflow checks compiled in it panics instead).
length(ifd, bits) ==
    LET p == MulWide(size(ifd), ifd.count) IN
    IF bits = 32 THEN Wide(p.hi % 65536, p.lo) ELSE p

\* IfdEntry::in_ifd(): `self.length() <= 4`
in_ifd_Strict(ifd, bits) == length(ifd, bits).hi = 0 /\ length(ifd, bits).lo < 4
in_ifd(ifd, bits) == length(ifd, bits).hi = 0 /\ length(ifd, bits).lo <= 4

\* IfdEntry::try_data_as_offset(): `read_u32(self.le, &self.ifd_data).map(|l| l as usize)`
try_data_as_offset(ifd) == read_u32(ifd.le, ifd.ifd_data)

\* a + b on usize, as limbs; wraps on a 32-bit target
AddWide(a, b, bits) ==
    LET lo == a.lo + b.lo
        hi == a.hi + b.hi + lo \div 65536
    IN Wide(IF bits = 32 THEN hi % 65536 ELSE hi, lo % 65536)

WideLeq(a, b) == a.hi < b.hi \/ (a.hi = b.hi /\ a.lo <= b.lo)

\* contents.get(a..b) for usize a, b kept as limbs
GetRangeWide(s, a, b) ==
    IF WideLeq(a, b) /\ WideLeq(b, Wide(Len(s) \div 65536, Len(s) % 65536))
    THEN Some(SubSeq(s, a.hi * 65536 + a.lo + 1, b.hi * 65536 + b.lo))
    ELSE None

\* IfdEntry::copy_data(contents): the entry afterwards and the value returned
copy_data(ifd, c, bits) ==
    IF in_ifd(ifd, bits)
    THEN [ifd |-> [ifd EXCEPT !.data = ifd.ifd_data], ret |-> TRUE]
    ELSE LET o == try_data_as_offset(ifd) IN
         IF o.kind = "None" THEN [ifd |-> ifd, ret |-> FALSE]
         ELSE LET ext == GetRangeWide(c, o.val, AddWide(o.val, length(ifd, bits), bits)) IN
              IF ext.kind = "None" THEN [ifd |-> ifd, ret |-> FALSE]
              ELSE [ifd |-> [ifd EXCEPT !.ext_data = ext.val, !.data = ext.val], ret |-> TRUE]

\* What a call returns on a given build: the value and the entry afterwards,
\* or the panic of an overflowing `*` or `+` when overflow checks are
\* compiled in (a 64-bit usize holds every product and sum of 32-bit values).
ERet(v, ifd) == [kind |-> "Ret", val |-> v, ifd |-> ifd]
EPanic(ifd) == [kind |-> "Panic", val |-> FALSE, ifd |-> ifd]

\* `(self.size() as usize) * (self.count as usize)` passes usize
length_overflows(ifd, bits) == bits = 32 /\ MulWide(size(ifd), ifd.count).hi >= 65536

\* `offset + self.length()` passes usize
sum_overflows(a, b, bits) == bits = 32 /\ a.hi + b.hi + (a.lo + b.lo) \div 65536 >= 65536

\* self.in_ifd() on a build
in_ifd_call(ifd, bits, checks) ==
    IF checks /\ length_overflows(ifd, bits) THEN EPanic(ifd)
    ELSE ERet(in_ifd(ifd, bits), ifd)

\* self.copy_data(contents) on a build
copy_data_call(ifd, c, bits, checks) ==
    IF checks /\ length_overflows(ifd, bits) THEN EPanic(ifd)
    ELSE IF /\ checks
            /\ ~in_ifd(ifd, bits)
            /\ try_data_as_offset(ifd).kind = "Some"
            /\ sum_overflows(try_data_as_offset(ifd).val, length(ifd, bits), bits)
    THEN EPanic(ifd)
    ELSE ERet(copy_data(ifd, c, bits).ret, copy_data(ifd, c, bits).ifd)

(***************************************************************************)
(* types.rs: ExifData::serialize                                           *)
(*                                                                         *)
(* An ExifEntry is the record [namespace, ifd, tag, kind] (value, unit and *)
(* value_more_readable are not read by the serializer), an ExifData the    *)
(* record [mime, entries, le].                                             *)
(***************************************************************************)
EXIF_HEADER == <<69, 120, 105, 102, 0, 0>>
INTEL_TIFF_HEADER == <<73, 73, 42, 0>>
MOTOROLA_TIFF_HEADER == <<77, 77, 0, 42>>
DATA_WIDTH == 4

\* u16::to_le_bytes / to_be_bytes
U16Bytes(le, v) == IF le THEN <<v % 256, v \div 256>> ELSE <<v \div 256, v % 256>>

\* u32::to_le_bytes / to_be_bytes of a u32 kept as limbs
U32Bytes(le, w) ==
    LET msb == <<w.hi \div 256, w.hi % 256, w.lo \div 256, w.lo % 256>> IN
    IF le THEN Reverse(msb) ELSE msb

\* `serialized.len() as u32`
LenU32_FromPrefix(s) == Wide(((Len(s) + 6) \div 65536) % 65536, (Len(s) + 6) % 65536)
LenU32(s) == Wide((Len(s) \div 65536) % 65536, Len(s) % 65536)

SOk(b) == [kind |-> "Ok", err |-> "", bytes |-> b]
SErr(e) == [kind |-> "Err", err |-> e, bytes |-> <<>>]
SPanic == [kind |-> "Panic", err |-> "", bytes |-> <<>>]
SNone == [kind |-> "None", err |-> "", bytes |-> <<>>]

\* `if self.namespace != Namespace::Standard { return Err(UnsupportedNamespace) }`
NamespaceRefused_Never(ifd) == FALSE
NamespaceRefused(ifd) == ifd.namespace # "Standard"

\* The byte order IfdEntry::serialize writes tag, format and count in:
\* `if self.le`, the entry's own flag.
RecordOrder(ifd) == ifd.le

\* `serialized.extend(&self.data)`: what an inline entry puts in the value field
InlineField_Zeroed(ifd) == <<0, 0, 0, 0>>
InlineField(ifd) == ifd.data

\* `Patch::new(serialized.len() as u32, &self.data)`: the payload of an external entry
PatchData_FromExt(ifd) == ifd.ext_data
PatchData(ifd) == ifd.data

\* IfdEntry::serialize(&self, serialized, data_patches): the error, or the
\* buffer and the patch list afterwards.
IfdEntry_serialize(ifd, serialized, data_patches, bits) ==
    IF NamespaceRefused(ifd)
    THEN [err |-> "UnsupportedNamespace", serialized |-> serialized, data_patches |-> data_patches]
    ELSE LET rec == serialized
                      \o U16Bytes(RecordOrder(ifd), ifd.tag)
                      \o U16Bytes(RecordOrder(ifd), FormatCode(ifd.format))
                      \o U32Bytes(RecordOrder(ifd), ifd.count)
         IN
         IF in_ifd(ifd, bits)
         THEN [err |-> "", serialized |-> rec \o InlineField(ifd), data_patches |-> data_patches]
         ELSE [err |-> "",
               serialized |-> rec \o <<0, 0, 0, 0>>,
               data_patches |-> Append(data_patches, [offset_pos |-> Len(rec), data |-> PatchData(ifd)])]

\* `for (place, byte) in serialized.iter_mut().skip(pos).zip(bytes.iter()) { *place = *byte; }`
Backfill_Shifted(serialized, pos, bytes) ==
    [i \in 1..Len(serialized) |->
        IF i - 1 >= pos + 1 /\ i - 1 < pos + 1 + Len(bytes) THEN bytes[i - pos - 1] ELSE serialized[i]]
Backfill(serialized, pos, bytes) ==
    [i \in 1..Len(serialized) |->
        IF i - 1 >= pos /\ i - 1 < pos + Len(bytes) THEN bytes[i - pos] ELSE serialized[i]]

\* `for patch in &data_patches { .. }`: append the patch's data and write the
\* position it starts at into the patch's field, in the set's byte order.
RECURSIVE ApplyPatches(_, _, _)
ApplyPatches(serialized, data_patches, le) ==
    IF data_patches = <<>> THEN serialized
    ELSE LET patch == Head(data_patches)
             bytes == U32Bytes(le, LenU32(serialized))
         IN ApplyPatches(Backfill(serialized \o patch.data, patch.offset_pos, bytes),
                         Tail(data_patches), le)

\* `entry.tag == ExifTag::ExifOffset` (which = "ExifOffset") and
\* `entry.tag == ExifTag::GPSOffset` (which = "GPSOffset")
IsPointerEntry_Either(e, which) == e.tag \in {"ExifOffset", "GPSOffset"}
IsPointerEntry(e, which) == e.tag = which

\* Option<usize>: the pointer positions; None is -1
NoPos == -1

\* `for entry in ifd0 { entry.ifd.serialize(..)?; .. }`: the state is
\* [err, serialized, data_patches, exif_ifd_pointer, gps_ifd_pointer].
RECURSIVE SerializeIfd0Entries(_, _, _)
SerializeIfd0Entries(entries, st, bits) ==
    IF entries = <<>> \/ st.err # "" THEN st
    ELSE LET entry == Head(entries)
             r == IfdEntry_serialize(entry.ifd, st.serialized, st.data_patches, bits)
         IN
         IF r.err # "" THEN [st EXCEPT !.err = r.err]
         ELSE SerializeIfd0Entries(Tail(entries),
                [err |-> "",
                 serialized |-> r.serialized,
                 data_patches |-> r.data_patches,
                 exif_ifd_pointer |->
                    IF IsPointerEntry(entry, "ExifOffset")
                    THEN Len(r.serialized) - DATA_WIDTH ELSE st.exif_ifd_pointer,
                 gps_ifd_pointer |->
                    IF IsPointerEntry(entry, "GPSOffset")
                    THEN Len(r.serialized) - DATA_WIDTH ELSE st.gps_ifd_pointer],
                bits)

\* `for entry in entries { entry.ifd.serialize(serialized, &mut data_patches)?; }`
RECURSIVE SerializeSubEntries(_, _, _)
SerializeSubEntries(entries, st, bits) ==
    IF entries = <<>> \/ st.err # "" THEN st
    ELSE LET r == IfdEntry_serialize(Head(entries).ifd, st.serialized, st.data_patches, bits) IN
         SerializeSubEntries(Tail(entries),
            [err |-> r.err, serialized |-> r.serialized, data_patches |-> r.data_patches], bits)

\* ExifData::serialize_ifd(&self, serialized, entries, pos): the error, or
\* the buffer afterwards.
serialize_ifd(le, serialized, entries, pos, bits) ==
    LET bytes == U32Bytes(le, LenU32(serialized))
        s1 == serialized \o U16Bytes(le, Len(entries) % 65536)
    IN
    IF pos = NoPos THEN [err |-> "MissingExifOffset", serialized |-> s1]
    ELSE LET s2 == Backfill(s1, pos, bytes)
             st == SerializeSubEntries(entries,
                      [err |-> "", serialized |-> s2, data_patches |-> <<>>], bits)
         IN
         IF st.err # "" THEN [err |-> st.err, serialized |-> st.serialized]
         ELSE [err |-> "",
               serialized |-> ApplyPatches(st.serialized \o <<0, 0, 0, 0>>, st.data_patches, le)]

\* The entries of one kind, in the order of the set.
OfKind_Ifd0AndRest(entries, kind) ==
    SelectSeq(entries, LAMBDA e :
        e.kind = kind \/ (kind = "Ifd0" /\ e.kind \in {"Makernote", "Interoperability"}))
OfKind(entries, kind) == SelectSeq(entries, LAMBDA e : e.kind = kind)

\* `if !ifd1.is_empty() { return Err(ExifError::UnsupportedNamespace); }`
Ifd1Refused_Never(ifd1) == FALSE
Ifd1Refused(ifd1) == ifd1 # <<>>

\* `if self.mime == "image/jpeg" { [EXIF_HEADER, &serialized].concat() } else { serialized }`
JpegPrefixed_Always(mime, serialized) == EXIF_HEADER \o serialized
JpegPrefixed(mime, serialized) ==
    IF mime = "image/jpeg" THEN EXIF_HEADER \o serialized ELSE serialized

\* ExifData::serialize(&self)
serialize(d, bits) ==
    LET tiff_header == IF d.le THEN INTEL_TIFF_HEADER ELSE MOTOROLA_TIFF_HEADER
        offset0 == U32Bytes(d.le, Wide(0, Len(tiff_header) + 4))
        ifd0 == OfKind(d.entries, "Ifd0")
        ifd1 == OfKind(d.entries, "Ifd1")
        exif == OfKind(d.entries, "Exif")
        gps == OfKind(d.entries, "Gps")
    IN
    IF Ifd1Refused(ifd1) THEN SErr("UnsupportedNamespace")
    ELSE
    LET s0 == tiff_header \o offset0 \o U16Bytes(d.le, Len(ifd0) % 65536)
        st == SerializeIfd0Entries(ifd0,
                 [err |-> "", serialized |-> s0, data_patches |-> <<>>,
                  exif_ifd_pointer |-> NoPos, gps_ifd_pointer |-> NoPos], bits)
    IN
    IF st.err # "" THEN SErr(st.err)
    ELSE IF ifd1 # <<>> THEN SPanic    \* unimplemented!("IFD-1")
    ELSE
    LET s1 == ApplyPatches(st.serialized \o <<0, 0, 0, 0>>, st.data_patches, d.le)
        r2 == IF exif # <<>>
              THEN serialize_ifd(d.le, s1, exif, st.exif_ifd_pointer, bits)
              ELSE [err |-> "", serialized |-> s1]
    IN
    IF r2.err # "" THEN SErr(r2.err)
    ELSE
    LET r3 == IF gps # <<>>
              THEN serialize_ifd(d.le, r2.serialized, gps, st.gps_ifd_pointer, bits)
              ELSE [err |-> "", serialized |-> r2.serialized]
    IN
    IF r3.err # "" THEN SErr(r3.err)
    ELSE SOk(JpegPrefixed(d.mime, r3.serialized))

(***************************************************************************)
(* types.rs: equality of entries.  Here an ExifEntry is the record         *)
(* [namespace, ifd, tag, value, unit, value_more_readable, kind].          *)
(***************************************************************************)
\* `!self.tag` on a u16: the bitwise complement
Not16(t) == 65535 - t

\* `self.in_ifd() && !self.tag == ExifTag::ExifOffset as u16
\*    && !self.tag == ExifTag::GPSOffset as u16`
DataCompared(ifd, bits) ==
    in_ifd(ifd, bits) /\ Not16(ifd.tag) = 34665 /\ Not16(ifd.tag) = 34853

\* impl PartialEq for IfdEntry
IfdEntry_eq(self, other, bits) ==
    LET data_eq == IF DataCompared(self, bits)
                   THEN /\ self.data = other.data
                        /\ self.ifd_data = other.ifd_data
                        /\ self.ext_data = other.ext_data
                   ELSE TRUE
    IN /\ self.namespace = other.namespace
       /\ self.tag = other.tag
       /\ self.count = other.count
       /\ data_eq
       /\ self.le = other.le

\* tag_value_eq(&self.value, &other.value); its code is not among the
\* source files: the two values are the same variant with the same elements.
tag_value_eq(left, right) == left = right

\* `ExifTag::ExifOffset | ExifTag::GPSOffset => true`
IsOffsetTag_Always(tag) == TRUE
IsOffsetTag(tag) == tag \in {"ExifOffset", "GPSOffset"}

\* impl PartialEq for ExifEntry
ExifEntry_eq(self, other, bits) ==
    LET value_eq == IF IsOffsetTag(self.tag) THEN TRUE
                    ELSE /\ self.value_more_readable = other.value_more_readable
                         /\ tag_value_eq(self.value, other.value)
    IN /\ self.namespace = other.namespace
       /\ IfdEntry_eq(self.ifd, other.ifd, bits)
       /\ self.tag = other.tag
       /\ self.unit = other.unit
       /\ self.kind = other.kind
       /\ value_eq

(***************************************************************************)
(* The directory parser.  Its code is not among the source files; it is    *)
(* modelled from section 4.4 of the specification, on top of the entry     *)
(* model (copy_data, try_data_as_offset, IfdFormat::new) and the tag table *)
(* of the source.                                                          *)
(***************************************************************************)
\* exif.rs, tag_to_exif: the identity of a tag code.  The rows of the table
\* that the entries of this model use; a code outside the table is
\* UnknownToMe, as are here the rows left out.
tag_to_exif(f) ==
    CASE f = 271 -> "Make"
      [] f = 274 -> "Orientation"
      [] f = 34665 -> "ExifOffset"
      [] f = 34853 -> "GPSOffset"
      [] f = 36867 -> "DateTimeOriginal"
      [] f = 5 -> "GPSAltitudeRef"
      [] OTHER -> "UnknownToMe"

PErr(e) == [err |-> e, entries |-> <<>>]
POk(es) == [err |-> "", entries |-> es]

\* A usize offset as a position of the buffer; an offset no buffer of the
\* model reaches is one past its end.
PosIn(buf, w) == IF w.hi = 0 /\ w.lo <= Len(buf) THEN w.lo ELSE Len(buf) + 1

\* One 12-byte record at position pos: 2-byte tag, 2-byte format code, 4-byte
\* count, 4-byte inline/offset field; the entry is built with the container's
\* byte order and its payload resolved against the whole buffer.
ParseRecord(buf, le, pos, kind, bits) ==
    LET rec == SubSeq(buf, pos + 1, pos + 12)
        tag == read_u16(le, SubSeq(rec, 1, 2)).val
        entry == [namespace |-> "Standard",
                  tag |-> tag,
                  format |-> IfdFormat_new(read_u16(le, SubSeq(rec, 3, 4)).val),
                  count |-> read_u32(le, SubSeq(rec, 5, 8)).val,
                  data |-> <<>>,
                  ifd_data |-> SubSeq(rec, 9, 12),
                  ext_data |-> <<>>,
                  le |-> le]
    IN [namespace |-> "Standard",
        ifd |-> copy_data(entry, buf, bits).ifd,
        tag |-> tag_to_exif(tag),
        kind |-> kind]

\* The directory at position pos: a 2-byte entry count, then the records.
ParseIfd(buf, le, pos, kind, bits) ==
    IF pos + 2 > Len(buf) THEN PErr("IfdTruncated")
    ELSE LET n == read_u16(le, SubSeq(buf, pos + 1, pos + 2)).val IN
         IF pos + 2 + 12 * n > Len(buf) THEN PErr("IfdTruncated")
         ELSE POk([i \in 1..n |-> ParseRecord(buf, le, pos + 2 + 12 * (i - 1), kind, bits)])

\* The sub-directories behind the pointer entries of the top-level
\* directory, in the order of the pointer entries.
RECURSIVE ParseSubIfds(_, _, _, _)
ParseSubIfds(buf, le, ifd0, bits) ==
    IF ifd0 = <<>> THEN POk(<<>>)
    ELSE LET e == Head(ifd0)
             rest == ParseSubIfds(buf, le, Tail(ifd0), bits)
         IN
         IF e.ifd.tag \notin {34665, 34853} THEN rest
         ELSE LET o == try_data_as_offset(e.ifd) IN
              IF o.kind = "None" THEN rest
              ELSE LET sub == ParseIfd(buf, le, PosIn(buf, o.val),
                                       IF e.ifd.tag = 34665 THEN "Exif" ELSE "Gps", bits)
                   IN
                   IF sub.err # "" THEN sub
                   ELSE IF rest.err # "" THEN rest
                   ELSE POk(sub.entries \o rest.entries)

\* The bytes of the TIFF structure: what follows the "Exif\0\0" tag when the
\* set is a JPEG's.
TiffPart(mime, bytes) ==
    IF mime = "image/jpeg"
    THEN IF StartsWith(bytes, EXIF_HEADER) THEN SubSeq(bytes, 7, Len(bytes)) ELSE <<>>
    ELSE bytes

\* parse: the byte-order header, the offset of the top-level directory, the
\* directory and its sub-directories.  The result is the error, or the
\* ExifData [mime, entries, le].
parse(mime, bytes, bits) ==
    LET buf == TiffPart(mime, bytes) IN
    IF Len(buf) < 8 THEN [err |-> "ExifIfdTruncated", data |-> [mime |-> mime, entries |-> <<>>, le |-> TRUE]]
    ELSE IF ~(StartsWith(buf, INTEL_TIFF_HEADER) \/ StartsWith(buf, MOTOROLA_TIFF_HEADER))
    THEN [err |-> "TiffBadPreamble", data |-> [mime |-> mime, entries |-> <<>>, le |-> TRUE]]
    ELSE
    LET le == StartsWith(buf, INTEL_TIFF_HEADER)
        ifd0 == ParseIfd(buf, le, PosIn(buf, read_u32(le, SubSeq(buf, 5, 8)).val), "Ifd0", bits)
        subs == IF ifd0.err # "" THEN ifd0 ELSE ParseSubIfds(buf, le, ifd0.entries, bits)
    IN [err |-> subs.err,
        data |-> [mime |-> mime,
                  entries |-> IF subs.err # "" THEN <<>> ELSE ifd0.entries \o subs.entries,
                  le |-> le]]

(***************************************************************************)
(* The conversion of a resolved payload into a TagValue (types.rs, enum    *)
(* TagValue), modelled from section 4.4 of the specification on top of the *)
(* array readers of lowlevel.rs.  A TagValue is its variant and elements;  *)
(* Undefined and Unknown carry the byte order, Invalid the raw bytes, the  *)
(* byte order, the format code and the count.  The text of an Ascii value  *)
(* is kept as its bytes.                                                   *)
(***************************************************************************)
TagValue(variant, elems) == [variant |-> variant, elems |-> elems]
TagValueOpaque(variant, bytes, le) == [variant |-> variant, elems |-> bytes, le |-> le]
TagValueInvalid(ifd) ==
    [variant |-> "Invalid", elems |-> ifd.data, le |-> ifd.le,
     format |-> FormatCode(ifd.format), count |-> ifd.count]
TagValuePanic == [variant |-> "Panic", elems |-> <<>>]

\* the array reader of a format
ArrayReaderOf(f) ==
    CASE f = "U16" -> "read_u16_array"
      [] f = "I16" -> "read_i16_array"
      [] f = "U32" -> "read_u32_array"
      [] f = "I32" -> "read_i32_array"
      [] f = "F32" -> "read_f32_array"
      [] f = "F64" -> "read_f64_array"
      [] f = "URational" -> "read_urational_array"
      [] f = "IRational" -> "read_irational_array"
      [] f = "I8" -> "read_i8_array"

\* the TagValue of an entry whose payload is resolved: by format and count,
\* in the entry's byte order; a payload too short for the count is Invalid
tag_value_new(ifd, bits) ==
    CASE ifd.format \in {"Undefined", "Unknown"} ->
            TagValueOpaque(ifd.format, ifd.data, ifd.le)
      [] ifd.format \in {"U8", "Ascii"} ->
            LET g == GetPrefixWide(ifd.data, ifd.count) IN
            IF g.kind = "None" THEN TagValueInvalid(ifd) ELSE TagValue(ifd.format, g.val)
      [] OTHER ->
            LET a == CallReader(ArrayReaderOf(ifd.format), ifd.le, ifd.count, ifd.data, bits) IN
            CASE a.kind = "Some" -> TagValue(ifd.format, a.val)
              [] a.kind = "None" -> TagValueInvalid(ifd)
              [] OTHER -> TagValuePanic

\* the 12-byte record of an entry, in the entry's byte order
Record12(ifd) ==
    U16Bytes(ifd.le, ifd.tag) \o U16Bytes(ifd.le, FormatCode(ifd.format))
        \o U32Bytes(ifd.le, ifd.count) \o SubSeq(ifd.ifd_data \o <<0, 0, 0, 0>>, 1, 4)

\* decoding the record at the front of a buffer: the entry and its value
decode_record(buf, le, bits) ==
    LET e == ParseRecord(buf, le, 0, "Ifd0", bits) IN
    ERet(tag_value_new(e.ifd, bits), e.ifd)

\* the 12-byte record of an entry whose format code on disk is c
RecordWithCode(ifd, c) ==
    U16Bytes(ifd.le, ifd.tag) \o U16Bytes(ifd.le, c)
        \o U32Bytes(ifd.le, ifd.count) \o SubSeq(ifd.ifd_data \o <<0, 0, 0, 0>>, 1, 4)

\* the record at the front of a buffer read into an entry, and the entry
\* written by IfdEntry::serialize into an empty buffer
rewrite_record(buf, le, bits) ==
    LET e == ParseRecord(buf, le, 0, "Ifd0", bits).ifd IN
    [read |-> SubSeq(buf, 1, 12), written |-> IfdEntry_serialize(e, <<>>, <<>>, bits).serialized]

(***************************************************************************)
(* The state machines.  Each specification runs one component; the         *)
(* variables of the others keep their idle values.                         *)
(***************************************************************************)
IdleImage ==
    /\ contents = <<>>
    /\ segs = <<>>
    /\ ipc = "off"
    /\ ftype = "none"
    /\ offset = 0
    /\ iters = 0
    /\ jres = JNone

IdleLow ==
    /\ raw = <<>>
    /\ lle = TRUE
    /\ usize_bits = 64
    /\ lcall = [fn |-> "none", count |-> Wide(0, 0)]
    /\ lres = [kind |-> "Idle", val |-> 0]

NotParsed == [err |-> "NotParsed", data |-> [mime |-> "", entries |-> <<>>, le |-> TRUE]]

IdleSer ==
    /\ exif_data = [mime |-> "", entries |-> <<>>, le |-> TRUE]
    /\ spc = "off"
    /\ sres = SNone
    /\ pres = NotParsed
    /\ rres = SNone

NoEntry ==
    [namespace |-> "Standard", tag |-> 0, format |-> "Unknown", count |-> Wide(0, 0),
     data |-> <<>>, ifd_data |-> <<>>, ext_data |-> <<>>, le |-> TRUE]

ENone == [kind |-> "None", val |-> FALSE, ifd |-> NoEntry]

IdleEnt ==
    /\ ifd_entry = NoEntry
    /\ econtents = <<>>
    /\ overflow_checks = FALSE
    /\ ecall = "none"
    /\ eres = ENone

NoExifEntry ==
    [namespace |-> "Standard", ifd |-> NoEntry, tag |-> "UnknownToMe",
     value |-> [variant |-> "Unknown", elems |-> <<>>, le |-> TRUE],
     unit |-> "", value_more_readable |-> "", kind |-> "Ifd0"]

IdleEq ==
    /\ lhs = NoExifEntry
    /\ rhs = NoExifEntry
    /\ eqcall = "none"
    /\ eqres = FALSE

(***************************************************************************)
(* The sniffer as a state machine.                                         *)
(***************************************************************************)
InitImage ==
    /\ \/ /\ segs \in SegSeqs
          /\ \E cut \in 0..MaxCut :
                /\ cut <= Len(JpegBytes(segs))
                /\ contents = SubSeq(JpegBytes(segs), 1, Len(JpegBytes(segs)) - cut)
       \/ /\ segs = <<>>
          /\ contents \in DetectBufs
    /\ ipc = "detect"
    /\ ftype = "none"
    /\ offset = 0
    /\ iters = 0
    /\ jres = JNone
    /\ IdleLow
    /\ IdleSer
    /\ IdleEq
    /\ IdleEnt

\* detect_type(contents)
DetectType ==
    /\ ipc = "detect"
    /\ ftype' = detect_type(contents)
    /\ ipc' = "start"
    /\ UNCHANGED <<contents, segs, offset, iters, jres, lowvars, servars, entvars, eqvars>>

\* find_embedded_tiff_in_jpeg(contents): `let mut offset = 2_usize;`
ScanStart ==
    /\ ipc = "start"
    /\ offset' = 2
    /\ ipc' = "scan"
    /\ UNCHANGED <<contents, segs, ftype, iters, jres, lowvars, servars, entvars, eqvars>>

\* the loop test failed: `Err("Scan past EOF and no EXIF found")`
ScanPastEof ==
    /\ ipc = "scan"
    /\ ~(offset < Len(contents))
    /\ jres' = JErr("Scan past EOF and no EXIF found")
    /\ ipc' = "done"
    /\ UNCHANGED <<contents, segs, ftype, offset, iters, lowvars, servars, entvars, eqvars>>

\* one iteration of the loop that returns
ScanReturn ==
    /\ ipc = "scan"
    /\ offset < Len(contents)
    /\ ScanBody(contents, offset).kind # "Next"
    /\ jres' = ScanBody(contents, offset)
    /\ ipc' = "done"
    /\ UNCHANGED <<contents, segs, ftype, offset, iters, lowvars, servars, entvars, eqvars>>

\* one iteration of the loop that goes on: `offset += size`
ScanAdvance ==
    /\ ipc = "scan"
    /\ offset < Len(contents)
    /\ ScanBody(contents, offset).kind = "Next"
    /\ offset' = ScanBody(contents, offset).off
    /\ iters' = iters + 1
    /\ UNCHANGED <<contents, segs, ipc, ftype, jres, lowvars, servars, entvars, eqvars>>

NextImage == DetectType \/ ScanStart \/ ScanPastEof \/ ScanReturn \/ ScanAdvance

SpecImage == InitImage /\ [][NextImage]_vars

\* The call runs to its end: a step that can be taken is taken.
SpecImageLive == SpecImage /\ WF_vars(NextImage)

(***************************************************************************)
(* The byte readers as a state machine: one call of one reader.            *)
(***************************************************************************)
InitLow ==
    /\ raw \in Raws
    /\ lle \in BOOLEAN
    /\ usize_bits \in UsizeWidths
    /\ lcall = [fn |-> "none", count |-> Wide(0, 0)]
    /\ lres = [kind |-> "Idle", val |-> 0]
    /\ IdleImage
    /\ IdleSer
    /\ IdleEq
    /\ IdleEnt

\* The call fn(le, count, raw) and its return.
Call(fn, c) ==
    /\ lcall.fn = "none"
    /\ lcall' = [fn |-> fn, count |-> c]
    /\ lres' = CallReader(fn, lle, c, raw, usize_bits)
    /\ UNCHANGED <<raw, lle, usize_bits, imgvars, servars, entvars, eqvars>>

ReadU16 == Call("read_u16", Wide(0, 0))

ReadI16 == Call("read_i16", Wide(0, 0))

ReadU32 == Call("read_u32", Wide(0, 0))

ReadI32 == Call("read_i32", Wide(0, 0))

ReadF32 == Call("read_f32", Wide(0, 0))

ReadF64 == Call("read_f64", Wide(0, 0))

ReadURational == Call("read_urational", Wide(0, 0))

ReadIRational == Call("read_irational", Wide(0, 0))

ReadI8Array == \E c \in Counts : Call("read_i8_array", c)

ReadU16Array == \E c \in Counts : Call("read_u16_array", c)

ReadI16Array == \E c \in Counts : Call("read_i16_array", c)

ReadU32Array == \E c \in Counts : Call("read_u32_array", c)

ReadI32Array == \E c \in Counts : Call("read_i32_array", c)

ReadF32Array == \E c \in Counts : Call("read_f32_array", c)

ReadF64Array == \E c \in Counts : Call("read_f64_array", c)

ReadURationalArray == \E c \in Counts : Call("read_urational_array", c)

ReadIRationalArray == \E c \in Counts : Call("read_irational_array", c)

NextLow ==
    \/ ReadU16
    \/ ReadI16
    \/ ReadU32
    \/ ReadI32
    \/ ReadF32
    \/ ReadF64
    \/ ReadURational
    \/ ReadIRational
    \/ ReadI8Array
    \/ ReadU16Array
    \/ ReadI16Array
    \/ ReadU32Array
    \/ ReadI32Array
    \/ ReadF32Array
    \/ ReadF64Array
    \/ ReadURationalArray
    \/ ReadIRationalArray

SpecLow == InitLow /\ [][NextLow]_vars

(***************************************************************************)
(* The serializer and the parser as a state machine: serialize a set,      *)
(* parse the bytes, serialize what was parsed.                             *)
(***************************************************************************)
\* The entries that sets are built from.  `flip` says that the entry's own
\* byte-order flag is the opposite of the set's.
Templates ==
    << \* top-level directory: an inline value, the two pointers, an external value
       [kind |-> "Ifd0", namespace |-> "Standard", ins |-> "Standard", tag |-> "Orientation",
        code |-> 274, format |-> "U16", count |-> 1, data |-> <<1, 0, 0, 0>>, flip |-> FALSE],
       [kind |-> "Ifd0", namespace |-> "Standard", ins |-> "Standard", tag |-> "ExifOffset",
        code |-> 34665, format |-> "U32", count |-> 1, data |-> <<8, 0, 0, 0>>, flip |-> FALSE],
       [kind |-> "Ifd0", namespace |-> "Standard", ins |-> "Standard", tag |-> "GPSOffset",
        code |-> 34853, format |-> "U32", count |-> 1, data |-> <<0, 0, 0, 8>>, flip |-> FALSE],
       [kind |-> "Ifd0", namespace |-> "Standard", ins |-> "Standard", tag |-> "Make",
        code |-> 271, format |-> "Ascii", count |-> 6, data |-> <<78, 105, 107, 111, 110, 0>>, flip |-> FALSE],
       \* sub-directories
       [kind |-> "Exif", namespace |-> "Standard", ins |-> "Standard", tag |-> "DateTimeOriginal",
        code |-> 36867, format |-> "Ascii", count |-> 5, data |-> <<50, 48, 50, 52, 0>>, flip |-> FALSE],
       [kind |-> "Gps", namespace |-> "Standard", ins |-> "Standard", tag |-> "GPSAltitudeRef",
        code |-> 5, format |-> "U8", count |-> 1, data |-> <<1, 0, 0, 0>>, flip |-> FALSE],
       \* the kinds the serializer does not write
       [kind |-> "Ifd1", namespace |-> "Standard", ins |-> "Standard", tag |-> "UnknownToMe",
        code |-> 259, format |-> "U16", count |-> 1, data |-> <<6, 0, 0, 0>>, flip |-> FALSE],
       [kind |-> "Makernote", namespace |-> "Nikon", ins |-> "Nikon", tag |-> "UnknownToMe",
        code |-> 2, format |-> "U16", count |-> 2, data |-> <<0, 0, 100, 0>>, flip |-> FALSE],
       [kind |-> "Interoperability", namespace |-> "Standard", ins |-> "Standard", tag |-> "UnknownToMe",
        code |-> 1, format |-> "Ascii", count |-> 4, data |-> <<82, 57, 56, 0>>, flip |-> FALSE],
       \* manufacturer namespaces, on the ExifEntry only and on the IfdEntry
       [kind |-> "Ifd0", namespace |-> "Nikon", ins |-> "Standard", tag |-> "UnknownToMe",
        code |-> 305, format |-> "Ascii", count |-> 2, data |-> <<97, 0, 0, 0>>, flip |-> FALSE],
       [kind |-> "Ifd0", namespace |-> "Canon", ins |-> "Canon", tag |-> "UnknownToMe",
        code |-> 1, format |-> "U16", count |-> 1, data |-> <<2, 0, 0, 0>>, flip |-> FALSE],
       [kind |-> "Exif", namespace |-> "Nikon", ins |-> "Nikon", tag |-> "UnknownToMe",
        code |-> 4, format |-> "U16", count |-> 1, data |-> <<3, 0, 0, 0>>, flip |-> FALSE],
       [kind |-> "Gps", namespace |-> "Standard", ins |-> "Nikon", tag |-> "GPSAltitudeRef",
        code |-> 5, format |-> "U8", count |-> 1, data |-> <<0, 0, 0, 0>>, flip |-> FALSE],
       \* a pointer entry of two elements, its payload external
       [kind |-> "Ifd0", namespace |-> "Standard", ins |-> "Standard", tag |-> "ExifOffset",
        code |-> 34665, format |-> "U32", count |-> 2, data |-> <<8, 0, 0, 0, 9, 0, 0, 0>>, flip |-> FALSE],
       \* the code of a pointer on the IfdEntry, not the identity on the ExifEntry
       [kind |-> "Ifd0", namespace |-> "Standard", ins |-> "Standard", tag |-> "UnknownToMe",
        code |-> 34665, format |-> "U32", count |-> 1, data |-> <<0, 0, 0, 0>>, flip |-> FALSE],
       \* an entry in the other byte order, an inline entry with one byte of data
       [kind |-> "Ifd0", namespace |-> "Standard", ins |-> "Standard", tag |-> "Orientation",
        code |-> 274, format |-> "U16", count |-> 1, data |-> <<0, 6, 0, 0>>, flip |-> TRUE],
       [kind |-> "Exif", namespace |-> "Standard", ins |-> "Standard", tag |-> "UnknownToMe",
        code |-> 41729, format |-> "Undefined", count |-> 1, data |-> <<1>>, flip |-> FALSE] >>

\* The ExifEntry of a template in a set of byte order le.
MkEntry(t, le) ==
    [namespace |-> t.namespace,
     ifd |-> [namespace |-> t.ins,
              tag |-> t.code,
              format |-> t.format,
              count |-> Wide(0, t.count),
              data |-> t.data,
              ifd_data |-> IF Len(t.data) = 4 THEN t.data ELSE <<0, 0, 0, 0>>,
              ext_data |-> IF Len(t.data) = 4 THEN <<>> ELSE t.data,
              le |-> (le # t.flip)],
     tag |-> t.tag,
     kind |-> t.kind]

\* The members of a set of template indices, in ascending order.
RECURSIVE Ascending(_)
Ascending(S) ==
    IF S = {} THEN <<>>
    ELSE LET lo == CHOOSE i \in S : \A j \in S : i <= j IN <<lo>> \o Ascending(S \ {lo})

\* The two templates of the pool that are the pointers to the sub-directories.
PointerTemplates ==
    { i \in 1..Len(Templates) :
        /\ Templates[i].kind = "Ifd0" /\ Templates[i].tag \in {"ExifOffset", "GPSOffset"}
        /\ Templates[i].namespace = "Standard" /\ Templates[i].ins = "Standard"
        /\ Templates[i].count = 1 }

\* The sets: at most MaxEntries templates besides the two pointers, in the
\* order of the pool or in the reverse order.
EntrySeqs(le) ==
    { [i \in 1..Len(Ascending(S)) |->
          MkEntry(Templates[Ascending(S)[IF rev THEN Len(Ascending(S)) + 1 - i ELSE i]], le)] :
        S \in { T \in SUBSET (1..Len(Templates)) : Cardinality(T \ PointerTemplates) <= MaxEntries },
        rev \in BOOLEAN }

Mimes == {"image/jpeg", "image/tiff", ""}

InitSer ==
    /\ \E le \in BOOLEAN, mime \in Mimes :
          \E entries \in EntrySeqs(le) :
             exif_data = [mime |-> mime, entries |-> entries, le |-> le]
    /\ spc = "serialize"
    /\ sres = SNone
    /\ pres = NotParsed
    /\ rres = SNone
    /\ IdleImage
    /\ IdleEnt
    /\ IdleEq
    /\ raw = <<>>
    /\ lle = TRUE
    /\ usize_bits \in UsizeWidths
    /\ lcall = [fn |-> "none", count |-> Wide(0, 0)]
    /\ lres = [kind |-> "Idle", val |-> 0]

\* exif_data.serialize()
Serialize ==
    /\ spc = "serialize"
    /\ sres' = serialize(exif_data, usize_bits)
    /\ spc' = IF sres'.kind = "Ok" THEN "parse" ELSE "done"
    /\ UNCHANGED <<exif_data, pres, rres, imgvars, lowvars, entvars, eqvars>>

\* the directory parser on the serialized bytes
Parse ==
    /\ spc = "parse"
    /\ pres' = parse(exif_data.mime, sres.bytes, usize_bits)
    /\ spc' = IF pres'.err = "" THEN "reserialize" ELSE "done"
    /\ UNCHANGED <<exif_data, sres, rres, imgvars, lowvars, entvars, eqvars>>

\* serialize() of the parsed set
Reserialize ==
    /\ spc = "reserialize"
    /\ rres' = serialize(pres.data, usize_bits)
    /\ spc' = "done"
    /\ UNCHANGED <<exif_data, sres, pres, imgvars, lowvars, entvars, eqvars>>

NextSer == Serialize \/ Parse \/ Reserialize

SpecSer == InitSer /\ [][NextSer]_vars

(***************************************************************************)
(* The methods of IfdEntry as a state machine: an entry is built, one      *)
(* method is called on it.                                                 *)
(***************************************************************************)
AllFormats == { FormatNames[c] : c \in 1..12 } \cup {"Unknown"}

\* count: u32.  The small counts and the ones whose product with an element
\* size reaches 2^32.
EntryCounts ==
    { Wide(0, c) : c \in 0..MaxSmallCount }
      \cup { Wide(8192, 0), Wide(8192, 1), Wide(16384, 0), Wide(32768, 0), Wide(65535, 65535) }

\* the inline bytes: offsets 12 and 20 in either byte order, values, and a
\* field of fewer than 4 bytes
InlineFields == { <<12, 0, 0, 0>>, <<0, 0, 0, 20>>, <<1, 2, 3, 4>>, <<1, 0, 0, 0>>, <<12, 0>> }

\* the buffers handed to copy_data
Buffers ==
    { [i \in 1..n |-> 100 + i] : n \in {14, 40} }

InitEntry ==
    /\ \E f \in AllFormats, c \in EntryCounts, d \in InlineFields, le \in BOOLEAN, t \in {274, 34665} :
          ifd_entry = [namespace |-> "Standard", tag |-> t, format |-> f, count |-> c,
                       data |-> <<>>, ifd_data |-> d, ext_data |-> <<>>, le |-> le]
    /\ econtents \in Buffers
    /\ overflow_checks \in BOOLEAN
    /\ usize_bits \in UsizeWidths
    /\ ecall = "none"
    /\ eres = ENone
    /\ IdleImage
    /\ IdleSer
    /\ IdleEq
    /\ raw = <<>>
    /\ lle = TRUE
    /\ lcall = [fn |-> "none", count |-> Wide(0, 0)]
    /\ lres = [kind |-> "Idle", val |-> 0]

\* ifd_entry.in_ifd()
InIfd ==
    /\ ecall = "none"
    /\ ecall' = "in_ifd"
    /\ eres' = in_ifd_call(ifd_entry, usize_bits, overflow_checks)
    /\ UNCHANGED <<ifd_entry, econtents, overflow_checks, imgvars, lowvars, servars, eqvars>>

\* ifd_entry.copy_data(&econtents)
CopyData ==
    /\ ecall = "none"
    /\ ecall' = "copy_data"
    /\ eres' = copy_data_call(ifd_entry, econtents, usize_bits, overflow_checks)
    /\ UNCHANGED <<ifd_entry, econtents, overflow_checks, imgvars, lowvars, servars, eqvars>>

\* the decoding of the entry's 12-byte record, laid before econtents
Decode ==
    /\ ecall = "none"
    /\ ecall' = "decode"
    /\ eres' = decode_record(Record12(ifd_entry) \o econtents, ifd_entry.le, usize_bits)
    /\ UNCHANGED <<ifd_entry, econtents, overflow_checks, imgvars, lowvars, servars, eqvars>>

\* the format codes found on disk: the known ones, 0, and codes outside the
\* known set
FormatCodes == 0..13 \cup {259, 65535}

\* the entry's record with format code c on disk, read and written again
Rewrite ==
    /\ ecall = "none"
    /\ ecall' = "rewrite"
    /\ \E c \in FormatCodes :
          eres' = ERet(rewrite_record(RecordWithCode(ifd_entry, c) \o econtents, ifd_entry.le, usize_bits),
                       ParseRecord(RecordWithCode(ifd_entry, c) \o econtents, ifd_entry.le, 0, "Ifd0",
                                   usize_bits).ifd)
    /\ UNCHANGED <<ifd_entry, econtents, overflow_checks, imgvars, lowvars, servars, eqvars>>

NextEntry == InIfd \/ CopyData \/ Decode \/ Rewrite

SpecEntry == InitEntry /\ [][NextEntry]_vars

(***************************************************************************)
(* Equality as a state machine: two entries are built, one comparison is   *)
(* made.                                                                   *)
(***************************************************************************)
\* the entries `self` is drawn from: the two pointers, an inline value, an
\* external value, and an entry whose tag is the complement of 0x8769
EqBases ==
    { [namespace |-> "Standard",
       ifd |-> [namespace |-> "Standard", tag |-> b.code, format |-> b.format, count |-> Wide(0, b.count),
                data |-> b.data, ifd_data |-> b.field, ext_data |-> b.ext, le |-> TRUE],
       tag |-> b.tag, value |-> b.value, unit |-> b.unit, value_more_readable |-> b.text,
       kind |-> "Ifd0"] :
      b \in { [code |-> 34665, tag |-> "ExifOffset", format |-> "U32", count |-> 1,
               data |-> <<26, 0, 0, 0>>, field |-> <<26, 0, 0, 0>>, ext |-> <<>>,
               value |-> TagValue("U32", <<Wide(0, 26)>>), unit |-> "byte offset", text |-> "26"],
              [code |-> 34853, tag |-> "GPSOffset", format |-> "U32", count |-> 1,
               data |-> <<26, 0, 0, 0>>, field |-> <<26, 0, 0, 0>>, ext |-> <<>>,
               value |-> TagValue("U32", <<Wide(0, 26)>>), unit |-> "byte offset", text |-> "26"],
              [code |-> 274, tag |-> "Orientation", format |-> "U16", count |-> 1,
               data |-> <<1, 0, 0, 0>>, field |-> <<1, 0, 0, 0>>, ext |-> <<>>,
               value |-> TagValue("U16", <<1>>), unit |-> "none", text |-> "Straight"],
              [code |-> 271, tag |-> "Make", format |-> "Ascii", count |-> 6,
               data |-> <<78, 105, 107, 111, 110, 0>>, field |-> <<26, 0, 0, 0>>,
               ext |-> <<78, 105, 107, 111, 110, 0>>,
               value |-> TagValue("Ascii", <<78, 105, 107, 111, 110, 0>>), unit |-> "none", text |-> "Nikon"],
              [code |-> 30870, tag |-> "UnknownToMe", format |-> "U16", count |-> 1,
               data |-> <<1, 0, 0, 0>>, field |-> <<1, 0, 0, 0>>, ext |-> <<>>,
               value |-> TagValue("U16", <<1>>), unit |-> "Unknown unit", text |-> "1"] } }

\* the fields two entries can differ in; "raw" is ifd.data with ifd.ifd_data
DiffFields ==
    { "namespace", "ifd.namespace", "ifd.tag", "ifd.format", "ifd.count", "raw", "ifd.ext_data",
      "ifd.le", "tag", "value", "value_more_readable", "unit", "kind" }

\* the entry e with the fields of D changed
Differing(e, D) ==
    [namespace |-> IF "namespace" \in D THEN "Nikon" ELSE e.namespace,
     ifd |-> [namespace |-> IF "ifd.namespace" \in D THEN "Canon" ELSE e.ifd.namespace,
              tag |-> IF "ifd.tag" \in D THEN 305 ELSE e.ifd.tag,
              format |-> IF "ifd.format" \in D THEN "Undefined" ELSE e.ifd.format,
              count |-> IF "ifd.count" \in D THEN Wide(0, e.ifd.count.lo + 1) ELSE e.ifd.count,
              data |-> IF "raw" \in D THEN <<38, 0, 0, 0>> ELSE e.ifd.data,
              ifd_data |-> IF "raw" \in D THEN <<38, 0, 0, 0>> ELSE e.ifd.ifd_data,
              ext_data |-> IF "ifd.ext_data" \in D THEN <<9>> ELSE e.ifd.ext_data,
              le |-> IF "ifd.le" \in D THEN ~e.ifd.le ELSE e.ifd.le],
     tag |-> IF "tag" \in D THEN "Software" ELSE e.tag,
     value |-> IF "value" \in D THEN TagValue("U32", <<Wide(0, 38)>>) ELSE e.value,
     unit |-> IF "unit" \in D THEN "other" ELSE e.unit,
     value_more_readable |-> IF "value_more_readable" \in D THEN "38" ELSE e.value_more_readable,
     kind |-> IF "kind" \in D THEN "Exif" ELSE e.kind]

InitEq ==
    /\ lhs \in EqBases
    /\ \E D \in SUBSET DiffFields : Cardinality(D) <= MaxDiffs /\ rhs = Differing(lhs, D)
    /\ eqcall = "none"
    /\ eqres = FALSE
    /\ usize_bits \in UsizeWidths
    /\ IdleImage
    /\ IdleSer
    /\ IdleEnt
    /\ raw = <<>>
    /\ lle = TRUE
    /\ lcall = [fn |-> "none", count |-> Wide(0, 0)]
    /\ lres = [kind |-> "Idle", val |-> 0]

\* lhs == rhs
ExifEq ==
    /\ eqcall = "none"
    /\ eqcall' = "ExifEntry"
    /\ eqres' = ExifEntry_eq(lhs, rhs, usize_bits)
    /\ UNCHANGED <<lhs, rhs, imgvars, lowvars, servars, entvars>>

\* lhs.ifd == rhs.ifd
IfdEq ==
    /\ eqcall = "none"
    /\ eqcall' = "IfdEntry"
    /\ eqres' = IfdEntry_eq(lhs.ifd, rhs.ifd, usize_bits)
    /\ UNCHANGED <<lhs, rhs, imgvars, lowvars, servars, entvars>>

NextEq == ExifEq \/ IfdEq

SpecEq == InitEq /\ [][NextEq]_vars

(***************************************************************************)
(* Properties of the container sniffer.                                    *)
(***************************************************************************)
\* C5: detect_type returns Unknown for every buffer shorter than 11 bytes; for
\* a buffer of at least 11 bytes it returns JPEG iff bytes 0..3 are FF D8 FF
\* and bytes 6..11 are "JFIF\0" or "Exif\0", otherwise TIFF iff the buffer
\* starts with "II*\0" or "MM\0*", otherwise Unknown.
C5_DetectType ==
    ftype # "none" =>
        /\ Len(contents) < 11 => ftype = "Unknown"
        /\ Len(contents) >= 11 =>
            LET jpeg == /\ SubSeq(contents, 1, 3) = <<255, 216, 255>>
                        /\ SubSeq(contents, 7, 11) \in {<<74, 70, 73, 70, 0>>, <<69, 120, 105, 102, 0>>}
                tiff == SubSeq(contents, 1, 4) \in {<<73, 73, 42, 0>>, <<77, 77, 0, 42>>}
            IN ftype = (IF jpeg THEN "JPEG" ELSE IF tiff THEN "TIFF" ELSE "Unknown")

C5_Witness ==
    /\ ftype = "JPEG"
    /\ Len(contents) = 11
    /\ SubSeq(contents, 7, 11) = Exif0

\* C6 as stated: every buffer that begins with "II*\0" or "MM\0*" is
\* classified TIFF.
C6_Original ==
    (ftype # "none" /\ (StartsWith(contents, TiffLE) \/ StartsWith(contents, TiffBE)))
        => ftype = "TIFF"

\* C6 as amended: every buffer of at least 11 bytes that begins with "II*\0"
\* or "MM\0*" is classified TIFF.
C6_TiffHeader ==
    (/\ ftype # "none"
     /\ Len(contents) >= 11
     /\ (SubSeq(contents, 1, 4) = <<73, 73, 42, 0>> \/ SubSeq(contents, 1, 4) = <<77, 77, 0, 42>>))
        => ftype = "TIFF"

C6_Witness ==
    /\ ftype = "TIFF"
    /\ StartsWith(contents, TiffBE)

\* A well-formed segment that is neither APP1 nor SOS: marker >= 0xFF00, the
\* declared length covers the length field and the body.
GoodOther(sg) ==
    /\ sg.marker[1] = 255
    /\ sg.marker \notin {<<255, 225>>, <<255, 218>>}
    /\ sg.size = Len(sg.body) + 2

\* A complete APP1 segment with declared length >= 8 whose body starts "Exif\0\0".
GoodApp1(sg) ==
    /\ sg.marker = <<255, 225>>
    /\ sg.size = Len(sg.body) + 2
    /\ sg.size >= 8
    /\ SubSeq(sg.body, 1, 6) = <<69, 120, 105, 102, 0, 0>>

\* The position of segment k's marker in the buffer.
PosOf(k) == 2 + Len(SegsBytes(SubSeq(segs, 1, k - 1)))

\* The first k - 1 segments are well-formed non-APP1, non-SOS segments and the
\* buffer holds the generated bytes up to position n.
LeadIn(k, n) ==
    /\ \A i \in 1..(k - 1) : GoodOther(segs[i])
    /\ Len(contents) >= n
    /\ SubSeq(contents, 1, n) = SubSeq(JpegBytes(segs), 1, n)

\* C7: on SOI, well-formed segments that are neither APP1 nor SOS, then a
\* complete APP1 segment at position p with declared length L >= 8 whose body
\* starts with "Exif\0\0", find_embedded_tiff_in_jpeg returns Ok((p + 10, L - 8));
\* when an SOS marker is met before any APP1 marker it returns
\* Err(JpegWithoutExif).
C7_LocateExif ==
    ipc = "done" =>
        \A k \in 1..Len(segs) :
            /\ (GoodApp1(segs[k]) /\ LeadIn(k, PosOf(k) + 2 + segs[k].size))
                  => jres = JOk(PosOf(k) + 10, segs[k].size - 8)
            /\ (segs[k].marker = <<255, 218>> /\ LeadIn(k, PosOf(k) + 2))
                  => (jres.kind = "Err" /\ jres.err = "JpegWithoutExif")

C7_Witness ==
    /\ ipc = "done"
    /\ Len(segs) = 2
    /\ GoodOther(segs[1])
    /\ GoodApp1(segs[2])
    /\ segs[2].size = 9
    /\ LeadIn(2, PosOf(2) + 2 + segs[2].size)
    /\ jres.kind = "Ok"

\* C8: on every buffer, also an empty or a 1-3 byte one, detect_type returns a
\* FileType and find_embedded_tiff_in_jpeg returns Ok or Err: no index or
\* slice is out of bounds.
C8_NoPanic ==
    /\ ftype \in {"none", "Unknown", "JPEG", "TIFF"}
    /\ jres.kind \in {"None", "Ok", "Err"}
    /\ ipc = "done" => jres.kind \in {"Ok", "Err"}
    /\ ipc # "detect" => ftype # "none"

C8_Witness ==
    /\ ipc = "done"
    /\ Len(contents) \in 1..3
    /\ jres.kind = "Err"
    /\ ftype = "Unknown"


\* the 16-bit big-endian value at position p of the buffer
Be16At(p) == contents[p + 1] * 256 + contents[p + 2]

\* the conditions under which the scan gives up at position p
MarkerHeaderShort(p) == Len(contents) - p < 4
MarkerInvalid(p) == Len(contents) - p >= 2 /\ Be16At(p) < 65280
LengthBelowTwo(p) == Len(contents) - p >= 4 /\ Be16At(p + 2) < 2
SegmentPastEnd(p) == Len(contents) - p >= 4 /\ p + 2 + Be16At(p + 2) > Len(contents)
App1BelowEight(p) == Len(contents) - p >= 4 /\ Be16At(p) = 65505 /\ Be16At(p + 2) < 8
GivesUpAt(p) ==
    \/ MarkerHeaderShort(p)
    \/ MarkerInvalid(p)
    \/ LengthBelowTwo(p)
    \/ SegmentPastEnd(p)
    \/ App1BelowEight(p)

\* C22: when, at the current scan position, the marker code is below
\* 0xFF00, or the declared segment length is below 2, or fewer than 4 bytes
\* remain for the marker header, or the declared segment extends past the
\* end of the buffer, or the segment is an APP1 segment with declared length
\* below 8, the scan returns Err(JpegWithoutExif) at once.
C22_ScanFails ==
    [][(ipc = "scan" /\ GivesUpAt(offset))
          => (ipc' = "done" /\ jres'.kind = "Err" /\ jres'.err = "JpegWithoutExif")]_vars

\* the scan has given up on the second segment, whose declared length is 1
C22_Witness ==
    /\ ipc = "done"
    /\ offset > 2
    /\ LengthBelowTwo(offset)
    /\ ~MarkerInvalid(offset)
    /\ jres.kind = "Err"

\* the iterations of the loop the call has performed: the ones that went on
\* and, when the call returned from inside the loop, the one that returned
Iterations == iters + (IF ipc = "done" /\ offset < Len(contents) THEN 1 ELSE 0)

\* each iteration that does not return advances the offset by at least 4
AdvancesByFour ==
    [][(ipc = "scan" /\ ipc' = "scan") => (offset' >= offset + 4 /\ iters' = iters + 1)]_vars

\* C26 as stated: the scan terminates on every buffer, each iteration that
\* does not return advances the offset by at least 4 bytes, and the call
\* performs at most len / 4 iterations.
C26_Original ==
    /\ <>(ipc = "done")
    /\ AdvancesByFour
    /\ [](4 * Iterations <= Len(contents))

\* C26 as amended: the scan terminates on every buffer, each iteration that
\* does not return advances the offset by at least 4 bytes, and the call
\* performs at most len / 4 iterations that do not return, so at most
\* len / 4 + 1 iterations.
C26_Terminates ==
    /\ <>(ipc = "done")
    /\ AdvancesByFour
    /\ [](4 * iters <= Len(contents) /\ 4 * (Iterations - 1) <= Len(contents))

\* the scan has returned in its second iteration
C26_Witness ==
    /\ ipc = "done"
    /\ iters = 1
    /\ Iterations = 2
    /\ offset >= 6

\* C27: when the scan returns Ok((o, n)), the range is inside the buffer and
\* framed: o + n <= len, o >= 12, contents[o-6 .. o] is "Exif\0\0",
\* contents[o-10 .. o-8] is FF E1, and n is the big-endian 16-bit value at
\* contents[o-8 .. o-6] minus 8 (n may be 0).
C27_OkFramed ==
    jres.kind = "Ok" =>
        /\ jres.off + jres.len <= Len(contents)
        /\ jres.off >= 12
        /\ jres.len >= 0
        /\ SubSeq(contents, jres.off - 5, jres.off) = <<69, 120, 105, 102, 0, 0>>
        /\ SubSeq(contents, jres.off - 9, jres.off - 8) = <<255, 225>>
        /\ jres.len = Be16At(jres.off - 8) - 8

\* an empty payload found behind a leading segment
C27_Witness ==
    /\ jres.kind = "Ok"
    /\ jres.len = 0
    /\ jres.off > 12
    /\ jres.off = Len(contents)

\* a complete APP1 segment at position p that is shorter than 8 bytes or
\* does not begin with "Exif\0\0"
App1Rejected(p) ==
    /\ Len(contents) - p >= 4
    /\ Be16At(p) = 65505
    /\ Be16At(p + 2) >= 2
    /\ p + 2 + Be16At(p + 2) <= Len(contents)
    /\ \/ Be16At(p + 2) < 8
       \/ SubSeq(contents, p + 5, p + 10) # <<69, 120, 105, 102, 0, 0>>

\* C28: the scan decides on the first APP1 segment it meets: if that
\* segment is complete but shorter than 8 bytes or not beginning with
\* "Exif\0\0", the scan returns Err(JpegWithoutExif) without looking at later
\* segments, also when a later APP1 segment before SOS has a valid payload.
C28_FirstApp1Decides ==
    [][(ipc = "scan" /\ App1Rejected(offset))
          => (ipc' = "done" /\ jres'.kind = "Err" /\ jres'.err = "JpegWithoutExif")]_vars

\* the scan gave up on a first APP1 segment that a valid one follows
C28_Witness ==
    /\ ipc = "done"
    /\ jres.kind = "Err"
    /\ App1Rejected(offset)
    /\ Be16At(offset + 2) >= 8
    /\ Len(segs) = 2
    /\ offset = PosOf(1)
    /\ GoodApp1(segs[2])
    /\ Len(contents) = Len(JpegBytes(segs))
(***************************************************************************)
(* Properties of the byte readers.                                         *)
(***************************************************************************)
\* The bytes a scalar reader needs.
Needed(fn) ==
    CASE fn \in {"read_u16", "read_i16"} -> 2
      [] fn \in {"read_u32", "read_i32", "read_f32"} -> 4
      [] fn \in {"read_urational", "read_irational", "read_f64"} -> 8

\* The 16-bit value of two bytes in the byte order `le`, and its signed reading.
Pair16(le, a, b) == IF le THEN a + 256 * b ELSE 256 * a + b
Neg16(v) == IF v >= 32768 THEN v - 65536 ELSE v

\* The value read_u32 / read_i32 are to give for the four bytes b.
Expect32(signed, le, b) ==
    LET hi == IF le THEN Pair16(le, b[3], b[4]) ELSE Pair16(le, b[1], b[2])
        lo == IF le THEN Pair16(le, b[1], b[2]) ELSE Pair16(le, b[3], b[4])
    IN IF signed THEN Neg16(hi) * 65536 + lo ELSE [hi |-> hi, lo |-> lo]

\* The value the scalar reader fn is to give for a slice b that is long enough.
ExpectScalar(fn, le, b) ==
    CASE fn = "read_u16" -> Pair16(le, b[1], b[2])
      [] fn = "read_i16" -> Neg16(Pair16(le, b[1], b[2]))
      [] fn = "read_u32" -> Expect32(FALSE, le, b)
      [] fn = "read_i32" -> Expect32(TRUE, le, b)
      [] fn = "read_urational" ->
            [numerator |-> Expect32(FALSE, le, SubSeq(b, 1, 4)),
             denominator |-> Expect32(FALSE, le, SubSeq(b, 5, 8))]
      [] fn = "read_irational" ->
            [numerator |-> Expect32(TRUE, le, SubSeq(b, 1, 4)),
             denominator |-> Expect32(TRUE, le, SubSeq(b, 5, 8))]

\* C9: read_u16, read_i16, read_u32, read_i32, read_urational and
\* read_irational return None, without panicking, whenever the slice is
\* shorter than the 2, 4 or 8 bytes they need; on a slice that is long enough
\* they decode its leading bytes in the byte order selected by `le`.
C9_ScalarReaders ==
    lcall.fn \in {"read_u16", "read_i16", "read_u32", "read_i32", "read_urational", "read_irational"} =>
        /\ lres.kind # "Panic"
        /\ Len(raw) < Needed(lcall.fn) => lres.kind = "None"
        /\ Len(raw) >= Needed(lcall.fn) =>
              (lres.kind = "Some" /\ lres.val = ExpectScalar(lcall.fn, lle, raw))

\* The element size of an array reader, and the scalar reader of its elements.
ElemSize(fn) ==
    CASE fn = "read_i8_array" -> 1
      [] fn \in {"read_u16_array", "read_i16_array"} -> 2
      [] fn \in {"read_u32_array", "read_i32_array", "read_f32_array"} -> 4
      [] fn \in {"read_urational_array", "read_irational_array", "read_f64_array"} -> 8

ElemOf(fn, le, chunk) ==
    CASE fn = "read_i8_array" -> (IF chunk[1] >= 128 THEN chunk[1] - 256 ELSE chunk[1])
      [] fn = "read_u16_array" -> ExpectScalar("read_u16", le, chunk)
      [] fn = "read_i16_array" -> ExpectScalar("read_i16", le, chunk)
      [] fn = "read_u32_array" -> ExpectScalar("read_u32", le, chunk)
      [] fn = "read_i32_array" -> ExpectScalar("read_i32", le, chunk)
      [] fn = "read_urational_array" -> ExpectScalar("read_urational", le, chunk)
      [] fn = "read_irational_array" -> ExpectScalar("read_irational", le, chunk)
      [] fn = "read_f32_array" -> read_f32(chunk).val
      [] fn = "read_f64_array" -> read_f64(chunk).val

\* C10: an array reader with element size s and count c returns Some(v) with
\* exactly c elements, element i decoded from bytes [i*s, (i+1)*s), iff
\* s * c <= len(raw); otherwise None: never a partial array, never a panic.
C10_ArrayReaders ==
    lcall.fn \in ArrayReaders =>
        LET s == ElemSize(lcall.fn)
            c == lcall.count
            fits == c.hi = 0 /\ s * c.lo <= Len(raw)
        IN
        /\ lres.kind # "Panic"
        /\ fits =>
              /\ lres.kind = "Some"
              /\ Len(lres.val) = c.lo
              /\ \A i \in 1..c.lo :
                    lres.val[i] = ElemOf(lcall.fn, lle, SubSeq(raw, (i - 1) * s + 1, i * s))
        /\ ~fits => lres.kind = "None"

C10_Witness ==
    /\ lcall.fn = "read_urational_array"
    /\ lcall.count = Wide(0, 2)
    /\ Len(raw) = 17
    /\ lres.kind = "Some"
    /\ Len(lres.val) = 2


\* The IEEE bit pattern, most significant byte first, of the bytes b of a
\* float stored in the byte order `le`.
FloatBits(le, b) == [bits |-> [i \in 1..Len(b) |-> IF le THEN b[Len(b) + 1 - i] ELSE b[i]]]

\* C23: read_f32, read_f64 and their array forms decode each element's 4
\* (8) bytes in the byte order of the entry: most significant byte first
\* for a big-endian entry, least significant byte first for a little-endian
\* one.
C23_FloatByteOrder ==
    /\ lcall.fn \in {"read_f32", "read_f64"} /\ Len(raw) >= Needed(lcall.fn)
          => lres = Some(FloatBits(lle, SubSeq(raw, 1, Needed(lcall.fn))))
    /\ (/\ lcall.fn \in {"read_f32_array", "read_f64_array"}
        /\ lcall.count.hi = 0
        /\ ElemSize(lcall.fn) * lcall.count.lo <= Len(raw))
          => /\ lres.kind = "Some"
             /\ Len(lres.val) = lcall.count.lo
             /\ \A i \in 1..lcall.count.lo :
                   lres.val[i] = FloatBits(lle, SubSeq(raw, (i - 1) * ElemSize(lcall.fn) + 1,
                                                       i * ElemSize(lcall.fn)))
(***************************************************************************)
(* Properties of the serializer.                                           *)
(***************************************************************************)
Entries == { exif_data.entries[i] : i \in 1..Len(exif_data.entries) }
Serialized == spc \in {"parse", "reserialize", "done"}

HasKind(k) == \E e \in Entries : e.kind = k
HasPointer(t) == \E e \in Entries : e.kind = "Ifd0" /\ e.tag = t
\* a sub-directory group has entries and the top-level directory no pointer to it
PointerMissing ==
    \/ HasKind("Exif") /\ ~HasPointer("ExifOffset")
    \/ HasKind("Gps") /\ ~HasPointer("GPSOffset")
Written(e) == e.kind \in {"Ifd0", "Exif", "Gps"}

\* C1: for every set whose entries all have the Standard namespace and a
\* kind among Ifd0, Exif, Gps, serializing the set, parsing the bytes and
\* serializing the parsed set gives the bytes of the first serialization.
C1_RoundTrip ==
    ( /\ spc = "done"
      /\ sres.kind = "Ok"
      /\ \A e \in Entries :
            e.namespace = "Standard" /\ e.ifd.namespace = "Standard" /\ Written(e) )
    => (pres.err = "" /\ rres = sres)

\* C2 as stated: a set with an Exif entry and no ExifOffset entry in the
\* top-level directory, or a Gps entry and no GPSOffset entry, makes
\* serialize return Err(MissingExifOffset) and no bytes.
C2_Original ==
    (Serialized /\ PointerMissing) => sres = SErr("MissingExifOffset")

\* C2: a set with an Exif entry and no ExifOffset entry in the top-level
\* directory, or a Gps entry and no GPSOffset entry, makes serialize return
\* an error and no bytes; the error is MissingExifOffset when the set has
\* no Ifd1 entry and no Ifd0, Exif or Gps entry whose IfdEntry has a
\* namespace other than Standard.
C2_MissingPointer ==
    (Serialized /\ PointerMissing)
    => /\ sres.kind = "Err"
       /\ sres.bytes = <<>>
       /\ ( /\ ~HasKind("Ifd1")
            /\ \A e \in Entries : Written(e) => e.ifd.namespace = "Standard" )
          => sres.err = "MissingExifOffset"

\* a Gps entry, an ExifOffset pointer, no GPSOffset pointer, nothing else in
\* the way: the pointer of the other sub-directory did not help
C2_Witness ==
    /\ Serialized
    /\ HasKind("Gps") /\ ~HasPointer("GPSOffset") /\ HasPointer("ExifOffset")
    /\ ~HasKind("Ifd1")
    /\ \A e \in Entries : e.ifd.namespace = "Standard"
    /\ sres = SErr("MissingExifOffset")

\* C3: a set with an entry of kind Ifd1 makes serialize return an error: no
\* bytes, no panic, whatever the other entries.
C3_Ifd1Fails ==
    (Serialized /\ HasKind("Ifd1")) => (sres.kind = "Err" /\ sres.bytes = <<>>)

\* an Ifd1 entry among entries that serialize well on their own
C3_Witness ==
    /\ Serialized
    /\ HasKind("Ifd1")
    /\ HasKind("Ifd0")
    /\ ~PointerMissing
    /\ \A e \in Entries : e.ifd.namespace = "Standard"
    /\ sres = SErr("UnsupportedNamespace")

\* C4 as stated: a set with an entry whose namespace is not Standard, on the
\* ExifEntry or on its IfdEntry, whatever the entry's kind, makes serialize
\* return Err(UnsupportedNamespace).
C4_Original ==
    (Serialized /\ \E e \in Entries : e.namespace # "Standard" \/ e.ifd.namespace # "Standard")
    => sres = SErr("UnsupportedNamespace")

\* C4: a set with an entry of kind Ifd0, Exif or Gps whose IfdEntry has a
\* namespace other than Standard makes serialize return an error and no
\* bytes; the error is UnsupportedNamespace when no sub-directory group
\* lacks its pointer entry.
C4_Namespace ==
    (Serialized /\ \E e \in Entries : Written(e) /\ e.ifd.namespace # "Standard")
    => /\ sres.kind = "Err"
       /\ sres.bytes = <<>>
       /\ ~PointerMissing => sres.err = "UnsupportedNamespace"

\* a manufacturer entry in a sub-directory that has its pointer, no Ifd1 entry
C4_Witness ==
    /\ Serialized
    /\ ~HasKind("Ifd1")
    /\ ~PointerMissing
    /\ \E e \in Entries : e.kind \in {"Exif", "Gps"} /\ e.ifd.namespace # "Standard"
    /\ sres = SErr("UnsupportedNamespace")

(***************************************************************************)
(* The layout of the output.  Positions are counted from the first byte of *)
(* the TIFF header.                                                        *)
(***************************************************************************)
\* the output without the "Exif\0\0" tag of a JPEG's set
Tiff == TiffPart(exif_data.mime, sres.bytes)
\* the n bytes at position pos
At(s, pos, n) == SubSeq(s, pos + 1, pos + n)
Ifd0Group == OfKind(exif_data.entries, "Ifd0")
ExifGroup == OfKind(exif_data.entries, "Exif")
GpsGroup == OfKind(exif_data.entries, "Gps")
External(e) == ~in_ifd(e.ifd, usize_bits)
\* the bytes one entry's record takes
RecLen(e) == 8 + (IF External(e) THEN 4 ELSE Len(e.ifd.data))
RECURSIVE SumRecLen(_)
SumRecLen(es) == IF es = <<>> THEN 0 ELSE RecLen(Head(es)) + SumRecLen(Tail(es))
\* where record i of the directory at position p starts
RecPos(p, es, i) == p + 2 + SumRecLen(SubSeq(es, 1, i - 1))
\* the set with every entry's byte-order flag made the set's
SameOrder(d) ==
    [d EXCEPT !.entries = [i \in 1..Len(d.entries) |-> [d.entries[i] EXCEPT !.ifd.le = d.le]]]

\* C13: every multi-byte integer serialize writes (the IFD0 offset, the
\* entry counts, each record's tag, format code and count, the patched
\* offsets) is in the byte order of the set's le, also when an entry's
\* ifd.le differs from it.
C13_SetByteOrder ==
    (Serialized /\ sres.kind = "Ok")
    => /\ At(Tiff, 4, 4) = U32Bytes(exif_data.le, Wide(0, 8))
       /\ At(Tiff, 8, 2) = U16Bytes(exif_data.le, Len(Ifd0Group))
       /\ \A i \in 1..Len(Ifd0Group) :
             LET p == RecPos(8, Ifd0Group, i)
                 e == Ifd0Group[i].ifd
             IN /\ At(Tiff, p, 2) = U16Bytes(exif_data.le, e.tag)
                /\ At(Tiff, p + 2, 2) = U16Bytes(exif_data.le, FormatCode(e.format))
                /\ At(Tiff, p + 4, 4) = U32Bytes(exif_data.le, e.count)
       /\ sres = serialize(SameOrder(exif_data), usize_bits)

\* the u32 that the 4 bytes at position pos hold in the set's byte order
U32At(s, pos) == read_u32(exif_data.le, At(s, pos, 4)).val
\* the last IFD0 entry tagged t, the one whose position serialize keeps
PointerIndex(t) ==
    CHOOSE i \in 1..Len(Ifd0Group) :
        /\ Ifd0Group[i].tag = t
        /\ \A j \in 1..Len(Ifd0Group) : Ifd0Group[j].tag = t => j <= i

\* IFD0 record i is the one whose field serialize fills with the offset of
\* a sub-directory
IsPointerRecord(i) ==
    \/ ExifGroup # <<>> /\ HasPointer("ExifOffset") /\ i = PointerIndex("ExifOffset")
    \/ GpsGroup # <<>> /\ HasPointer("GPSOffset") /\ i = PointerIndex("GPSOffset")

\* C14: the output for mime "image/jpeg" is "Exif\0\0" followed by the
\* output of the same set under any other mime; the unprefixed output
\* starts with "II*\0" 08 00 00 00 (le) or "MM\0*" 00 00 00 08, and the
\* offsets in it (of IFD0, of external payloads, of sub-directories) count
\* from the first byte of the TIFF header.
C14_JpegPrefix ==
    (Serialized /\ sres.kind = "Ok")
    => LET plain == serialize([exif_data EXCEPT !.mime = "image/tiff"], usize_bits)
           blank == serialize([exif_data EXCEPT !.mime = ""], usize_bits)
           t == plain.bytes
       IN
       /\ plain.kind = "Ok" /\ blank = plain
       /\ sres.bytes = IF exif_data.mime = "image/jpeg" THEN EXIF_HEADER \o t ELSE t
       /\ At(t, 0, 8) = IF exif_data.le THEN <<73, 73, 42, 0, 8, 0, 0, 0>>
                                         ELSE <<77, 77, 0, 42, 0, 0, 0, 8>>
       /\ At(t, 8, 2) = U16Bytes(exif_data.le, Len(Ifd0Group))
       /\ \A i \in 1..Len(Ifd0Group) :
             (External(Ifd0Group[i]) /\ ~IsPointerRecord(i)) =>
                LET o == U32At(t, RecPos(8, Ifd0Group, i) + 8) IN
                o.hi = 0 /\ At(t, o.lo, Len(Ifd0Group[i].ifd.data)) = Ifd0Group[i].ifd.data
       /\ ExifGroup # <<>> =>
             LET o == U32At(t, RecPos(8, Ifd0Group, PointerIndex("ExifOffset")) + 8) IN
             o.hi = 0 /\ At(t, o.lo, 2) = U16Bytes(exif_data.le, Len(ExifGroup))

\* a JPEG's set with an external IFD0 payload and an Exif sub-directory
C14_Witness ==
    /\ Serialized /\ sres.kind = "Ok"
    /\ exif_data.mime = "image/jpeg"
    /\ StartsWith(sres.bytes, EXIF_HEADER)
    /\ \E i \in 1..Len(Ifd0Group) : External(Ifd0Group[i])
    /\ ExifGroup # <<>>

\* the set without its Makernote and Interoperability entries
Stripped(d) ==
    [d EXCEPT !.entries = SelectSeq(d.entries, LAMBDA e : e.kind \notin {"Makernote", "Interoperability"})]

\* C15: Makernote and Interoperability entries are dropped: the result of
\* serialize (bytes or error) is the result for the set without them, and
\* a set of nothing else serializes.
C15_Dropped ==
    Serialized
    => /\ sres = serialize(Stripped(exif_data), usize_bits)
       /\ (\A e \in Entries : e.kind \in {"Makernote", "Interoperability"}) => sres.kind = "Ok"

\* a manufacturer's Makernote entry and an Interoperability entry beside an
\* IFD0 entry, serialized
C15_Witness ==
    /\ Serialized /\ sres.kind = "Ok"
    /\ HasKind("Makernote") /\ HasKind("Interoperability") /\ HasKind("Ifd0")
    /\ \E e \in Entries : e.kind = "Makernote" /\ e.ifd.namespace # "Standard"

\* the bytes of the external payloads of a directory's entries
RECURSIVE PayloadLen(_)
PayloadLen(es) ==
    IF es = <<>> THEN 0
    ELSE (IF External(Head(es)) THEN Len(Head(es).ifd.data) ELSE 0) + PayloadLen(Tail(es))
\* where the records of the directory at position p end
DirRecEnd(p, es) == p + 2 + SumRecLen(es)
\* where the directory at position p ends, payloads included
DirEnd(p, es) == DirRecEnd(p, es) + 4 + PayloadLen(es)
\* where the payload of entry i of the directory at position p starts
PayloadStart(p, es, i) == DirRecEnd(p, es) + 4 + PayloadLen(SubSeq(es, 1, i - 1))
ExifStart == DirEnd(8, Ifd0Group)
GpsStart == IF ExifGroup = <<>> THEN ExifStart ELSE DirEnd(ExifStart, ExifGroup)
\* the directories of the output: where each starts, its entries
Dirs ==
    {[p |-> 8, es |-> Ifd0Group, top |-> TRUE]}
      \cup (IF ExifGroup = <<>> THEN {} ELSE {[p |-> ExifStart, es |-> ExifGroup, top |-> FALSE]})
      \cup (IF GpsGroup = <<>> THEN {} ELSE {[p |-> GpsStart, es |-> GpsGroup, top |-> FALSE]})
\* an offset as serialize writes it
OffsetBytes(n) == U32Bytes(exif_data.le, Wide(0, n))

\* C18: every record is 12 bytes (tag, format, count, value or offset), so
\* a directory of n entries takes 2 + 12 * n + 4 bytes before its external
\* payloads, whatever the length of an inline entry's data.
C18_RecordSize ==
    (Serialized /\ sres.kind = "Ok")
    => /\ \A e \in Entries :
             Written(e) => Len(IfdEntry_serialize(e.ifd, <<>>, <<>>, usize_bits).serialized) = 12
       /\ \A d \in Dirs :
             /\ DirRecEnd(d.p, d.es) = d.p + 2 + 12 * Len(d.es)
             /\ At(Tiff, d.p + 2 + 12 * Len(d.es), 4) = <<0, 0, 0, 0>>

\* C19 as stated: in every directory the payloads of the entries with
\* length() > 4 follow the 4 zero bytes in the order of the records, and
\* the field of each such record holds, in the set's byte order, the offset
\* at which that entry's data begins.
C19_Original ==
    (Serialized /\ sres.kind = "Ok")
    => \A d \in Dirs :
          /\ At(Tiff, DirRecEnd(d.p, d.es), 4) = <<0, 0, 0, 0>>
          /\ \A i \in 1..Len(d.es) :
                External(d.es[i]) =>
                   /\ At(Tiff, PayloadStart(d.p, d.es, i), Len(d.es[i].ifd.data)) = d.es[i].ifd.data
                   /\ At(Tiff, RecPos(d.p, d.es, i) + 8, 4) = OffsetBytes(PayloadStart(d.p, d.es, i))

\* C19: in every directory the payloads of the entries with length() > 4
\* follow the 4 zero bytes in the order of the records, and the field of
\* each such record, but the IFD0 record that holds the pointer to a
\* non-empty sub-directory, holds in the set's byte order the offset at
\* which that entry's data begins.
C19_Patches ==
    (Serialized /\ sres.kind = "Ok")
    => \A d \in Dirs :
          /\ At(Tiff, DirRecEnd(d.p, d.es), 4) = <<0, 0, 0, 0>>
          /\ \A i \in 1..Len(d.es) :
                External(d.es[i]) =>
                   /\ At(Tiff, PayloadStart(d.p, d.es, i), Len(d.es[i].ifd.data)) = d.es[i].ifd.data
                   /\ ~(d.top /\ IsPointerRecord(i)) =>
                         At(Tiff, RecPos(d.p, d.es, i) + 8, 4) = OffsetBytes(PayloadStart(d.p, d.es, i))

\* two external payloads in one directory, resolved
C19_Witness ==
    /\ Serialized /\ sres.kind = "Ok"
    /\ \E d \in Dirs : \E i, j \in 1..Len(d.es) :
          /\ i < j /\ External(d.es[i]) /\ External(d.es[j])
          /\ ~(d.top /\ (IsPointerRecord(i) \/ IsPointerRecord(j)))
          /\ At(Tiff, RecPos(d.p, d.es, j) + 8, 4) = OffsetBytes(PayloadStart(d.p, d.es, j))
          /\ PayloadStart(d.p, d.es, j) = PayloadStart(d.p, d.es, i) + Len(d.es[i].ifd.data)

\* C20: with a non-empty Exif (GPS) group and an ExifOffset (GPSOffset)
\* entry in IFD0, the field of that record holds the offset of the
\* sub-directory's entry count; the Exif sub-directory comes after the IFD0
\* payloads and before the GPS sub-directory; each sub-directory's records
\* are followed by 4 zero bytes and its payloads, and nothing else follows.
C20_SubDirs ==
    (Serialized /\ sres.kind = "Ok")
    => /\ ExifGroup # <<>> =>
             /\ At(Tiff, RecPos(8, Ifd0Group, PointerIndex("ExifOffset")) + 8, 4) = OffsetBytes(ExifStart)
             /\ At(Tiff, ExifStart, 2) = U16Bytes(exif_data.le, Len(ExifGroup))
             /\ At(Tiff, DirRecEnd(ExifStart, ExifGroup), 4) = <<0, 0, 0, 0>>
       /\ GpsGroup # <<>> =>
             /\ At(Tiff, RecPos(8, Ifd0Group, PointerIndex("GPSOffset")) + 8, 4) = OffsetBytes(GpsStart)
             /\ At(Tiff, GpsStart, 2) = U16Bytes(exif_data.le, Len(GpsGroup))
             /\ At(Tiff, DirRecEnd(GpsStart, GpsGroup), 4) = <<0, 0, 0, 0>>
       /\ Len(Tiff) = IF GpsGroup = <<>> THEN GpsStart ELSE DirEnd(GpsStart, GpsGroup)

\* both sub-directories in one output, the Exif one with an external payload
C20_Witness ==
    /\ Serialized /\ sres.kind = "Ok"
    /\ ExifGroup # <<>> /\ GpsGroup # <<>>
    /\ \E i \in 1..Len(ExifGroup) : External(ExifGroup[i])
    /\ ExifStart < GpsStart
    /\ At(Tiff, RecPos(8, Ifd0Group, PointerIndex("GPSOffset")) + 8, 4) = OffsetBytes(GpsStart)


\* the top-level directory has an entry tagged t and the set no entry of
\* kind k
StalePointer(t, k) == HasPointer(t) /\ ~HasKind(k)

\* nothing else in the set makes serialize fail
NothingElseFails ==
    /\ ~HasKind("Ifd1")
    /\ ~PointerMissing
    /\ \A e \in Entries : Written(e) => e.ifd.namespace = "Standard"

\* the inline records of the top-level directory tagged t hold the entry's
\* own data bytes
FieldsKeepData(t) ==
    \A i \in 1..Len(Ifd0Group) :
        (Ifd0Group[i].tag = t /\ ~External(Ifd0Group[i]))
           => At(Tiff, RecPos(8, Ifd0Group, i) + 8, Len(Ifd0Group[i].ifd.data)) = Ifd0Group[i].ifd.data

Blurred(e) ==
    [namespace |-> IF e.namespace = "Standard" THEN "Nikon" ELSE "Standard",
     ifd |-> [e.ifd EXCEPT !.ifd_data = <<9, 9, 9, 9>>, !.ext_data = <<7>>],
     tag |-> e.tag,
     kind |-> e.kind,
     value |-> TagValue("U8", <<7>>),
     unit |-> "other",
     value_more_readable |-> "other"]

\* a set that agrees with d on mime == "image/jpeg", on le and on the
\* entries of kind Ifd0, Exif and Gps in their order (on kind, tag and the
\* ifd fields namespace, tag, format, count, data, le), and on nothing else
SameInputs(d) ==
    [mime |-> IF d.mime = "image/jpeg" THEN d.mime ELSE "image/png",
     le |-> d.le,
     entries |-> LET kept == SelectSeq(d.entries, LAMBDA e : e.kind \in {"Ifd0", "Exif", "Gps"})
                 IN [i \in 1..Len(kept) |-> Blurred(kept[i])]]

\* the same, agreeing with d also on whether there is an entry of kind Ifd1
SameInputsAndIfd1(d) ==
    [SameInputs(d) EXCEPT
        !.entries = @ \o (IF \E i \in 1..Len(d.entries) : d.entries[i].kind = "Ifd1"
                          THEN <<[namespace |-> "Canon",
                                  ifd |-> [namespace |-> "Canon", tag |-> 0, format |-> "Unknown",
                                           count |-> Wide(0, 0), data |-> <<>>, ifd_data |-> <<>>,
                                           ext_data |-> <<>>, le |-> ~d.le],
                                  tag |-> "UnknownToMe", kind |-> "Ifd1",
                                  value |-> TagValue("U8", <<>>), unit |-> "", value_more_readable |-> ""]>>
                          ELSE <<>>)]

\* serialize borrows the set and leaves it as it was
SetUnchanged == [][exif_data' = exif_data]_vars

\* C30 as stated: the result of serialize depends only on mime ==
\* "image/jpeg", on le and, for each entry of kind Ifd0, Exif or Gps in
\* order, on its kind, its tag and its ifd fields namespace, tag, format,
\* count, data and le; serialize leaves the set unchanged.
C30_Original ==
    /\ [](Serialized => sres = serialize(SameInputs(exif_data), usize_bits))
    /\ SetUnchanged

\* C30 as amended: the result depends only on those and on whether the set
\* has an entry of kind Ifd1; serialize leaves the set unchanged.
C30_DependsOnlyOn ==
    /\ [](Serialized => sres = serialize(SameInputsAndIfd1(exif_data), usize_bits))
    /\ SetUnchanged

\* a set with entries of every written kind and a Makernote entry, whose
\* output is that of the set with the unread fields replaced
C30_Witness ==
    /\ Serialized /\ sres.kind = "Ok"
    /\ HasKind("Ifd0") /\ HasKind("Exif") /\ HasKind("Makernote")
    /\ \E e \in Entries : External(e)
    /\ SameInputs(exif_data) # exif_data
    /\ sres = serialize(SameInputs(exif_data), usize_bits)
(***************************************************************************)
(* Properties of the directory entry model.                                *)
(***************************************************************************)
\* size(format) * count <= 4, the product taken in the integers
FitsInline(ifd) ==
    LET p == MulWide(size(ifd), ifd.count) IN p.hi = 0 /\ p.lo <= 4

\* C11: in_ifd() returns true iff size() * count <= 4, the product not
\* wrapping for any 32-bit count; U32 with count 1 is inline and U32 with
\* count 2 is not.
C11_InIfd ==
    ecall = "in_ifd" => eres = ERet(FitsInline(ifd_entry), ifd_entry)

\* C12: after a copy_data call that returned true the payload has
\* data.len() = size() * count, and for an inline entry it is the 4 inline
\* bytes truncated to length().
C12_CopyData ==
    (ecall = "copy_data" /\ eres.kind = "Ret" /\ eres.val)
    => LET p == MulWide(size(ifd_entry), ifd_entry.count) IN
       /\ p.hi = 0
       /\ Len(eres.ifd.data) = p.lo
       /\ in_ifd(ifd_entry, usize_bits) => eres.ifd.data = SubSeq(ifd_entry.ifd_data, 1, p.lo)

\* C16: a record with format code 3 (U16), count 1 and inline bytes b0 b1
\* b2 b3 decodes to U16([v]), one element, v = b0 + 256 * b1 in
\* little-endian and 256 * b0 + b1 in big-endian order; tag 0x0112 with
\* inline 01 00 00 00, little-endian, gives U16([1]).
C16_DecodeU16 ==
    (ecall = "decode" /\ ifd_entry.format = "U16" /\ ifd_entry.count = Wide(0, 1))
    => LET b == ifd_entry.ifd_data
           v == IF ifd_entry.le THEN b[1] + 256 * b[2] ELSE 256 * b[1] + b[2]
       IN
       /\ FormatCode(eres.ifd.format) = 3
       /\ eres.kind = "Ret"
       /\ eres.val = TagValue("U16", <<v>>)
       /\ (ifd_entry.le /\ b = <<1, 0, 0, 0>>) => eres.val = TagValue("U16", <<1>>)

\* the record of the example, decoded
C16_Witness ==
    /\ ecall = "decode"
    /\ Record12(ifd_entry) = <<18, 1, 3, 0, 1, 0, 0, 0, 1, 0, 0, 0>>
    /\ ifd_entry.le
    /\ eres.val = TagValue("U16", <<1>>)


\* the range contents[o .. o + length()] is inside contents, the sum taken
\* in the integers
RangeInside(ifd, c, bits) ==
    LET o == try_data_as_offset(ifd) IN
    /\ o.kind = "Some"
    /\ WideLeq(AddWide(o.val, length(ifd, bits), 64), Wide(0, Len(c)))

\* contents[o .. o + length()]
RangeBytes(ifd, c, bits) ==
    LET o == try_data_as_offset(ifd).val IN
    SubSeq(c, o.lo + 1, o.lo + length(ifd, bits).lo)

\* C21: for an entry with length() > 4, copy_data returns true with data and
\* ext_data both contents[o .. o + length()], o the first 4 bytes of
\* ifd_data in the entry's byte order, iff ifd_data has at least 4 bytes and
\* o + length() <= len(contents); otherwise it returns false and leaves data
\* and ext_data as they were; the other fields are unchanged in both cases.
C21_CopyDataExternal ==
    ( /\ ecall = "copy_data"
      /\ ~(overflow_checks /\ length_overflows(ifd_entry, usize_bits))
      /\ ~in_ifd(ifd_entry, usize_bits) )
    => IF Len(ifd_entry.ifd_data) >= 4 /\ RangeInside(ifd_entry, econtents, usize_bits)
       THEN eres = ERet(TRUE, [ifd_entry EXCEPT
                                 !.data = RangeBytes(ifd_entry, econtents, usize_bits),
                                 !.ext_data = RangeBytes(ifd_entry, econtents, usize_bits)])
       ELSE eres = ERet(FALSE, ifd_entry)

\* the format code in a 12-byte record of byte order le
CodeIn(rec, le) == IF le THEN rec[3] + 256 * rec[4] ELSE 256 * rec[3] + rec[4]

\* IfdFormat::new(c) is the variant of discriminant c for c in 1..=12 and
\* Unknown for every other code; IfdFormat::new(f as u16) = f
NewInvertsCast(c) ==
    /\ c \in 1..12 => FormatCode(IfdFormat_new(c)) = c /\ IfdFormat_new(c) # "Unknown"
    /\ c \notin 1..12 => IfdFormat_new(c) = "Unknown"
    /\ \A f \in AllFormats : IfdFormat_new(FormatCode(f)) = f

\* C24 as stated: IfdFormat::new inverts the cast to u16, and an entry built
\* from the format code c on disk is serialized with format code c, for
\* every c.
C24_Original ==
    ecall = "rewrite" =>
        /\ NewInvertsCast(CodeIn(eres.val.read, ifd_entry.le))
        /\ CodeIn(eres.val.written, ifd_entry.le) = CodeIn(eres.val.read, ifd_entry.le)

\* C24 as amended: IfdFormat::new inverts the cast to u16, and an entry
\* built from the format code c on disk is serialized with format code c for
\* every c in 0..=12, and with format code 0 for every other c.
C24_FormatRoundTrip ==
    ecall = "rewrite" =>
        LET c == CodeIn(eres.val.read, ifd_entry.le) IN
        /\ NewInvertsCast(c)
        /\ Len(eres.val.written) >= 8
        /\ CodeIn(eres.val.written, ifd_entry.le) = (IF c \in 0..12 THEN c ELSE 0)

\* the code of F64 read and written again
C24_Witness ==
    /\ ecall = "rewrite"
    /\ CodeIn(eres.val.read, ifd_entry.le) = 12
    /\ eres.ifd.format = "F64"
    /\ CodeIn(eres.val.written, ifd_entry.le) = 12
(***************************************************************************)
(* Properties of equality.                                                 *)
(***************************************************************************)
PointerTags == {"ExifOffset", "GPSOffset"}

\* b is a but for the offset it holds: the raw inline bytes, the resolved
\* value and the display string
SameButOffset(a, b) ==
    [b EXCEPT !.ifd.data = a.ifd.data,
              !.ifd.ifd_data = a.ifd.ifd_data,
              !.value = a.value,
              !.value_more_readable = a.value_more_readable] = a

\* C17: two ExifOffset or GPSOffset entries that differ only in the offset
\* they hold are equal; for every other tag two entries are equal only if
\* their resolved values and their display strings are equal.
C17_Equality ==
    eqcall = "ExifEntry"
    => /\ (lhs.tag \in PointerTags /\ SameButOffset(lhs, rhs)) => eqres
       /\ (lhs.tag \notin PointerTags /\ eqres)
             => (lhs.value = rhs.value /\ lhs.value_more_readable = rhs.value_more_readable)

\* two pointer entries holding different offsets, compared equal
C17_Witness ==
    /\ eqcall = "ExifEntry"
    /\ lhs.tag \in PointerTags
    /\ lhs.ifd.ifd_data # rhs.ifd.ifd_data
    /\ lhs.value # rhs.value
    /\ lhs.value_more_readable # rhs.value_more_readable
    /\ eqres


\* C25: two IfdEntry values that agree on namespace, tag, count and le,
\* whose tag is neither ExifOffset (0x8769) nor GPSOffset (0x8825) and for
\* which in_ifd() holds, compare equal only if their data bytes are equal.
C25_InlineDataCompared ==
    ( /\ eqcall = "IfdEntry"
      /\ lhs.ifd.namespace = rhs.ifd.namespace
      /\ lhs.ifd.tag = rhs.ifd.tag
      /\ lhs.ifd.count = rhs.ifd.count
      /\ lhs.ifd.le = rhs.ifd.le
      /\ lhs.ifd.tag \notin {34665, 34853}
      /\ in_ifd(lhs.ifd, usize_bits)
      /\ eqres )
    => lhs.ifd.data = rhs.ifd.data
=============================================================================
